---- MODULE Spec2Model ----
(***************************************************************************)
(* Model of microvi's core::Registry (src/src/core/Registry.cpp): the      *)
(* command / keybinding store with origin precedence, shadow stacks,       *)
(* conflict log, version counter and event notification.                   *)
(*                                                                         *)
(* Descriptor fields the registry only copies and never reads (label,      *)
(* short_description, doc_url, capabilities, lifetime, when_clause,        *)
(* arguments, Origin::name) are left out of the records; every field that  *)
(* an `if`, a comparison or a map lookup of Registry.cpp reads is kept.    *)
(***************************************************************************)
EXTENDS Integers, Sequences, FiniteSets, TLC

VARIABLES
  commands_,                    \* id -> CommandEntry (the active commands)
  command_shadow_,              \* id -> sequence of CommandEntry
  keybindings_by_id_,           \* id -> KeybindingEntry (the active keybindings)
  keybinding_active_key_to_id_, \* binding key -> id
  keybinding_shadow_,           \* binding key -> sequence of KeybindingEntry
  keybinding_token_to_key_,     \* token -> binding key
  conflicts_,                   \* sequence of ConflictRecord (audit log)
  version_,
  next_token_,
  next_sequence_,
  result,                       \* value returned by the last call
  events,                       \* RegistryEvents passed to Notify by the last call
  fault,                        \* "none", or how the process died
  subscribers_,                 \* subscription tokens, in the iteration order of the map
  next_subscription_token_,
  mutex_,                       \* "free" or "held"
  call_stack,                   \* the registry calls of the thread, innermost last
  produced,                     \* history: the key events Poll has returned, in order
  pushed,                       \* history: the key events Push has appended, in order
  consumed,                     \* history: the results of ConsumeAll, concatenated
  applied,                      \* history: the key events HandleEvent has been given
  events_,                      \* EventQueue::events_
  queue_mutex_,                 \* EventQueue::mutex_: "free", "input" or "main"
  input_pc,                     \* where the input thread is in InputLoop
  input_event,                  \* the local `event` of InputLoop
  main_pc,                      \* where the main thread is in Run
  batch,                        \* the local `events` of ProcessPendingEvents, not yet handled
  running_,                     \* EditorState::running_
  stop_requested,               \* the stop token of input_thread_
  lines_,                       \* Buffer::lines_, a line is a sequence of characters
  dirty_,                       \* Buffer::dirty_
  cursor_line_,                 \* EditorState, 0-based
  cursor_column_,
  mode_,
  status_message_,
  status_severity_,
  command_buffer_,              \* ModeController, a sequence of characters
  pending_normal_command_,      \* a sequence of characters
  prefix_count_,
  motion_count_,
  has_prefix_count_,
  has_motion_count_,
  yank_buffer_,                 \* a sequence of lines
  yank_linewise_,
  has_last_find_,
  last_find_target_,            \* a character, "" for the char 0
  last_find_backward_,
  last_find_till_,
  handled,                      \* how the last key event was dispatched
  before,                       \* history: text and cursor before the last key event
  thread_calls,                 \* per thread, the registry call it is in
  applied_changes,              \* history: the events in the order their changes were applied
  delivered,                    \* history: the callback invocations in the order they happened
  unsubscribed                  \* history: the tokens for which Unsubscribe returned true

RegistryVars == <<commands_, command_shadow_, keybindings_by_id_,
                  keybinding_active_key_to_id_, keybinding_shadow_,
                  keybinding_token_to_key_, conflicts_, version_, next_token_,
                  next_sequence_, result, events, fault>>
NotifyVars == <<subscribers_, next_subscription_token_, mutex_, call_stack>>

LoopVars == <<produced, pushed, consumed, applied, events_, queue_mutex_, input_pc,
              input_event, main_pc, batch, running_, stop_requested>>

EditorVars == <<lines_, dirty_, cursor_line_, cursor_column_, mode_, status_message_,
                status_severity_, command_buffer_, pending_normal_command_,
                prefix_count_, motion_count_, has_prefix_count_, has_motion_count_,
                yank_buffer_, yank_linewise_, has_last_find_, last_find_target_,
                last_find_backward_, last_find_till_, handled, before>>

\* two threads that call the registry at the same time, and what they did
ThreadVars == <<thread_calls, applied_changes, delivered, unsubscribed>>

vars == <<RegistryVars, NotifyVars, LoopVars, EditorVars, ThreadVars>>

(***************************************************************************)
(* Bounds of the model: a Register call is made while next_token_ is at    *)
(* most the token bound and the conflict log is shorter than MaxConflicts. *)
(***************************************************************************)
MaxToken == 3
\* the token bound of the specification that mixes commands and keybindings
MaxMixedToken == 2
\* the token bound of the specification of keybindings on two binding keys
MaxKeybindingToken == 4
MaxConflicts == 2

(***************************************************************************)
(* std::unordered_map helpers.                                             *)
(***************************************************************************)
EmptyMap == [k \in {} |-> {}]
Put(m, k, v) == [x \in (DOMAIN m) \cup {k} |-> IF x = k THEN v ELSE m[x]]
Erase(m, k) == [x \in (DOMAIN m) \ {k} |-> m[x]]
\* operator[] on a map of vectors: a missing key reads as the empty vector
ListAt(m, k) == IF k \in DOMAIN m THEN m[k] ELSE << >>
\* vector::erase of the element at index i
RemoveAt(list, i) == [j \in 1..(Len(list) - 1) |-> IF j < i THEN list[j] ELSE list[j + 1]]
\* std::remove_if(token == t) followed by erase
RemoveToken(list, t) == SelectSeq(list, LAMBDA e : e.token # t)

(***************************************************************************)
(* Precedence of origins.                                                  *)
(***************************************************************************)
kPrecedenceCore == 0
kPrecedenceNative == 1
kPrecedencePlugin == 2
kPrecedenceUser == 3

PrecedenceRank(origin) ==
  CASE origin.kind = "kCore" -> kPrecedenceCore
    [] origin.kind = "kNative" -> kPrecedenceNative
    [] origin.kind = "kPlugin" -> kPrecedencePlugin
    [] origin.kind = "kUser" -> kPrecedenceUser
    [] OTHER -> kPrecedenceCore

\* static_cast<int>(mode) printed by std::to_string
ModeNumber(mode) ==
  CASE mode = "kNormal" -> "0"
    [] mode = "kInsert" -> "1"
    [] mode = "kCommand" -> "2"
    [] mode = "kVisual" -> "3"
    [] mode = "kAny" -> "4"

ComposeBindingKey(mode, gesture) == ModeNumber(mode) \o ":" \o gesture

CallableIsValid(callable) == callable.native_callback \/ callable.rpc_endpoint # ""

HandleIsValid(handle) == handle.token # 0

CommandDescriptorsCompatible(a, b) ==
  a.modes = b.modes /\ a.parameters = b.parameters /\ a.undo_scope = b.undo_scope

\* KeybindingDescriptor::operator== (when_clause and arguments are the same
\* in every descriptor of the model)
KeybindingDescriptorEq(a, b) ==
  a.id = b.id /\ a.command_id = b.command_id /\ a.mode = b.mode /\ a.gesture = b.gesture

(***************************************************************************)
(* Return values.                                                          *)
(***************************************************************************)
NoConflict == [none |-> TRUE]
\* a default-constructed RegistrationHandle
NoHandle == [resource |-> "kCommand", id |-> "", token |-> 0]

Conflict(resource, id, winner, loser, message) ==
  [resource |-> resource, id |-> id, winner_origin |-> winner,
   loser_origin |-> loser, message |-> message]

\* a variant of Event that reports every change as an applied registration
Event_Applied(resource, id, status) == [resource |-> resource, id |-> id, status |-> "kApplied"]

Event(resource, id, status) == [resource |-> resource, id |-> id, status |-> status]

RegistrationResult(op, status, handle, conflict) ==
  [op |-> op, status |-> status, handle |-> handle, conflict |-> conflict]

(***************************************************************************)
(* Conflict resolution.                                                    *)
(***************************************************************************)
\* a variant of ResolveCommandConflict that compares the priority before the rank
ResolveCommandConflict_PriorityFirst(existing, incoming) ==
  LET existing_rank == PrecedenceRank(existing.origin)
      incoming_rank == PrecedenceRank(incoming.origin)
      id == incoming.descriptor.id
      replaced == [decision |-> "kReplaceExisting",
                   conflict |-> Conflict("kCommand", id, incoming.origin, existing.origin,
                       "Replaced command due to higher precedence or priority")]
      shadowed == [decision |-> "kShadowIncoming",
                   conflict |-> Conflict("kCommand", id, existing.origin, incoming.origin,
                       "Command shadowed by higher precedence or priority")]
  IN IF incoming.priority > existing.priority THEN replaced
     ELSE IF incoming.priority < existing.priority THEN shadowed
     ELSE IF incoming_rank > existing_rank THEN replaced
     ELSE IF incoming_rank < existing_rank THEN shadowed
     ELSE IF CommandDescriptorsCompatible(existing.descriptor, incoming.descriptor)
          THEN [decision |-> "kShadowIncoming",
                conflict |-> Conflict("kCommand", id, existing.origin, incoming.origin,
                    "Duplicate command ignored (same precedence and priority)")]
          ELSE [decision |-> "kRejectIncoming",
                conflict |-> Conflict("kCommand", id, existing.origin, incoming.origin,
                    "Command signature conflict with identical precedence and priority")]

ResolveCommandConflict(existing, incoming) ==
  LET existing_rank == PrecedenceRank(existing.origin)
      incoming_rank == PrecedenceRank(incoming.origin)
      id == incoming.descriptor.id
      replaced == [decision |-> "kReplaceExisting",
                   conflict |-> Conflict("kCommand", id, incoming.origin, existing.origin,
                       "Replaced command due to higher precedence or priority")]
      shadowed == [decision |-> "kShadowIncoming",
                   conflict |-> Conflict("kCommand", id, existing.origin, incoming.origin,
                       "Command shadowed by higher precedence or priority")]
  IN IF incoming_rank > existing_rank THEN replaced
     ELSE IF incoming_rank < existing_rank THEN shadowed
     ELSE IF incoming.priority > existing.priority THEN replaced
     ELSE IF incoming.priority < existing.priority THEN shadowed
     ELSE IF CommandDescriptorsCompatible(existing.descriptor, incoming.descriptor)
          THEN [decision |-> "kShadowIncoming",
                conflict |-> Conflict("kCommand", id, existing.origin, incoming.origin,
                    "Duplicate command ignored (same precedence and priority)")]
          ELSE [decision |-> "kRejectIncoming",
                conflict |-> Conflict("kCommand", id, existing.origin, incoming.origin,
                    "Command signature conflict with identical precedence and priority")]

\* a variant of ResolveKeybindingConflict that shadows the incoming entry on every tie
ResolveKeybindingConflict_TieShadows(existing, incoming) ==
  LET existing_rank == PrecedenceRank(existing.origin)
      incoming_rank == PrecedenceRank(incoming.origin)
      id == incoming.descriptor.id
      replaced == [decision |-> "kReplaceExisting",
                   conflict |-> Conflict("kKeybinding", id, incoming.origin, existing.origin,
                       "Replaced keybinding due to higher precedence or priority")]
      shadowed == [decision |-> "kShadowIncoming",
                   conflict |-> Conflict("kKeybinding", id, existing.origin, incoming.origin,
                       "Keybinding shadowed by higher precedence or priority")]
  IN IF incoming_rank > existing_rank THEN replaced
     ELSE IF incoming_rank < existing_rank THEN shadowed
     ELSE IF incoming.priority > existing.priority THEN replaced
     ELSE shadowed

ResolveKeybindingConflict(existing, incoming) ==
  LET existing_rank == PrecedenceRank(existing.origin)
      incoming_rank == PrecedenceRank(incoming.origin)
      id == incoming.descriptor.id
      replaced == [decision |-> "kReplaceExisting",
                   conflict |-> Conflict("kKeybinding", id, incoming.origin, existing.origin,
                       "Replaced keybinding due to higher precedence or priority")]
      shadowed == [decision |-> "kShadowIncoming",
                   conflict |-> Conflict("kKeybinding", id, existing.origin, incoming.origin,
                       "Keybinding shadowed by higher precedence or priority")]
  IN IF incoming_rank > existing_rank THEN replaced
     ELSE IF incoming_rank < existing_rank THEN shadowed
     ELSE IF incoming.priority > existing.priority THEN replaced
     ELSE IF incoming.priority < existing.priority THEN shadowed
     ELSE IF KeybindingDescriptorEq(incoming.descriptor, existing.descriptor)
          THEN [decision |-> "kShadowIncoming",
                conflict |-> Conflict("kKeybinding", id, existing.origin, incoming.origin,
                    "Duplicate keybinding ignored (same precedence and priority)")]
          ELSE [decision |-> "kRejectIncoming",
                conflict |-> Conflict("kKeybinding", id, existing.origin, incoming.origin,
                    "Conflicting keybinding with identical precedence and priority")]

(***************************************************************************)
(* Promotion of the best shadow entry.                                     *)
(***************************************************************************)
\* the `prefer` lambda of PromoteCommandShadow
PreferCommand(lhs, rhs) ==
  LET lhs_rank == PrecedenceRank(lhs.origin)
      rhs_rank == PrecedenceRank(rhs.origin)
  IN IF lhs_rank # rhs_rank THEN lhs_rank > rhs_rank
     ELSE IF lhs.priority # rhs.priority THEN lhs.priority > rhs.priority
     ELSE lhs.sequence < rhs.sequence

\* the `prefer` lambda of PromoteKeybindingShadow
PreferKeybinding(lhs, rhs) ==
  LET lhs_rank == PrecedenceRank(lhs.origin)
      rhs_rank == PrecedenceRank(rhs.origin)
  IN IF lhs_rank # rhs_rank THEN lhs_rank > rhs_rank
     ELSE IF lhs.priority # rhs.priority THEN lhs.priority > rhs.priority
     ELSE lhs.sequence < rhs.sequence

\* std::max_element(list, comp) with comp(l, r) = !prefer(l, r): the scan keeps
\* `largest` and moves it to i whenever comp(list[largest], list[i])
RECURSIVE MaxElementCommand(_, _, _)
MaxElementCommand(list, largest, i) ==
  IF i > Len(list) THEN largest
  ELSE MaxElementCommand(list,
         IF ~PreferCommand(list[largest], list[i]) THEN i ELSE largest, i + 1)

RECURSIVE MaxElementKeybinding(_, _, _)
MaxElementKeybinding(list, largest, i) ==
  IF i > Len(list) THEN largest
  ELSE MaxElementKeybinding(list,
         IF ~PreferKeybinding(list[largest], list[i]) THEN i ELSE largest, i + 1)

\* a variant of PromoteCommandShadow that drops the shadow stack and promotes nothing
PromoteCommandShadow_Drop(st, id) == [st EXCEPT !.command_shadow = Erase(@, id)]

\* the registry fields PromoteCommandShadow reads and writes, as a record
PromoteCommandShadow(st, id) ==
  IF id \notin DOMAIN st.command_shadow \/ st.command_shadow[id] = << >>
  THEN [st EXCEPT !.command_shadow = Erase(@, id)]
  ELSE LET list == st.command_shadow[id]
           best == MaxElementCommand(list, 1, 2)
           rest == RemoveAt(list, best)
       IN [commands |-> Put(st.commands, id, list[best]),
           command_shadow |-> IF rest = << >> THEN Erase(st.command_shadow, id)
                              ELSE Put(st.command_shadow, id, rest),
           version |-> st.version + 1]

PromoteKeybindingShadow(st, binding_key) ==
  IF binding_key \notin DOMAIN st.shadow \/ st.shadow[binding_key] = << >>
  THEN [st EXCEPT !.shadow = Erase(@, binding_key)]
  ELSE LET list == st.shadow[binding_key]
           best == MaxElementKeybinding(list, 1, 2)
           promoted == list[best]
           rest == RemoveAt(list, best)
       IN [by_id |-> Put(st.by_id, promoted.descriptor.id, promoted),
           key_to_id |-> Put(st.key_to_id, binding_key, promoted.descriptor.id),
           token_to_key |-> Put(st.token_to_key, promoted.token, binding_key),
           shadow |-> IF rest = << >> THEN Erase(st.shadow, binding_key)
                      ELSE Put(st.shadow, binding_key, rest),
           version |-> st.version + 1]

(***************************************************************************)
(* Registry::Registry(): empty maps, version_ 1, counters 1.               *)
(***************************************************************************)
NoResult == [op |-> "none"]
\* Buffer::Buffer(): lines_.emplace_back("")
EmptyLine == << >>
\* no key event has been handled yet
NothingHandled ==
  [turn |-> 0, event |-> [code |-> "none", value |-> ""], path |-> "none", command_id |-> ""]
\* no key event has been handled yet, or the session keeps no history
NothingBefore == [lines |-> << >>, cursor_line |-> 0, cursor_column |-> 0]
\* the threads that call the registry at the same time
Threads == {1, 2}
\* a thread that is in no registry call
NoCall == [op |-> "none", pc |-> "idle"]
\* KeyEvent event{}: the value-initialised local of InputLoop
NoKeyEvent == [id |-> 0, quits |-> FALSE]

\* the state after construction but for the text of the buffer
InitOutsideBuffer ==
  /\ commands_ = EmptyMap
  /\ command_shadow_ = EmptyMap
  /\ keybindings_by_id_ = EmptyMap
  /\ keybinding_active_key_to_id_ = EmptyMap
  /\ keybinding_shadow_ = EmptyMap
  /\ keybinding_token_to_key_ = EmptyMap
  /\ conflicts_ = << >>
  /\ version_ = 1
  /\ next_token_ = 1
  /\ next_sequence_ = 1
  /\ result = NoResult
  /\ events = << >>
  /\ fault = "none"
  /\ subscribers_ = << >>
  /\ next_subscription_token_ = 1
  /\ mutex_ = "free"
  /\ call_stack = << >>
  /\ produced = << >>
  /\ pushed = << >>
  /\ consumed = << >>
  /\ applied = << >>
  /\ events_ = << >>
  /\ queue_mutex_ = "free"
  /\ input_pc = "not started"
  /\ input_event = NoKeyEvent
  /\ main_pc = "start"
  /\ batch = << >>
  /\ running_ = TRUE
  /\ stop_requested = FALSE
  /\ dirty_ = FALSE
  /\ cursor_line_ = 0
  /\ cursor_column_ = 0
  /\ mode_ = "kNormal"
  /\ status_message_ = ""
  /\ status_severity_ = "kNone"
  /\ command_buffer_ = << >>
  /\ pending_normal_command_ = << >>
  /\ prefix_count_ = 0
  /\ motion_count_ = 0
  /\ has_prefix_count_ = FALSE
  /\ has_motion_count_ = FALSE
  /\ yank_buffer_ = << >>
  /\ yank_linewise_ = FALSE
  /\ has_last_find_ = FALSE
  /\ last_find_target_ = ""
  /\ last_find_backward_ = FALSE
  /\ last_find_till_ = FALSE
  /\ handled = NothingHandled
  /\ before = NothingBefore
  /\ thread_calls = [thread \in Threads |-> NoCall]
  /\ applied_changes = << >>
  /\ delivered = << >>
  /\ unsubscribed = {}

\* no file is loaded: the buffer is the one Buffer::Buffer() makes
Init ==
  /\ InitOutsideBuffer
  /\ lines_ = <<EmptyLine>>

KeybindingVarsUnchanged ==
  UNCHANGED <<keybindings_by_id_, keybinding_active_key_to_id_, keybinding_shadow_,
              keybinding_token_to_key_>>

CommandVarsUnchanged == UNCHANGED <<commands_, command_shadow_>>

\* a variant of RejectEarly that leaves the conflict out of the audit log
RejectEarly_Unlogged(op, conflict) ==
  /\ conflicts_' = conflicts_
  /\ result' = RegistrationResult(op, "kRejected", NoHandle, conflict)
  /\ events' = << >>
  /\ UNCHANGED <<version_, next_token_, next_sequence_, fault>>
  /\ CommandVarsUnchanged
  /\ KeybindingVarsUnchanged

\* an early `return result` of a Register call that only logs a conflict
RejectEarly(op, conflict) ==
  /\ conflicts_' = Append(conflicts_, conflict)
  /\ result' = RegistrationResult(op, "kRejected", NoHandle, conflict)
  /\ events' = << >>
  /\ UNCHANGED <<version_, next_token_, next_sequence_, fault>>
  /\ CommandVarsUnchanged
  /\ KeybindingVarsUnchanged

(***************************************************************************)
(* Registry::RegisterCommand                                               *)
(***************************************************************************)
RegisterCommand(registration, origin) ==
  LET id == registration.descriptor.id IN
  /\ fault = "none"
  /\ IF id = ""
     THEN RejectEarly("RegisterCommand",
            Conflict("kCommand", "", origin, origin, "Command id must not be empty"))
     ELSE IF ~CallableIsValid(registration.callable)
     THEN RejectEarly("RegisterCommand",
            Conflict("kCommand", id, origin, origin,
                     "Command callable must provide native callback or RPC endpoint"))
     ELSE
       LET incoming == [descriptor |-> registration.descriptor,
                        callable |-> registration.callable,
                        origin |-> origin,
                        priority |-> registration.priority,
                        token |-> next_token_,
                        sequence |-> next_sequence_]
           handle == [resource |-> "kCommand", id |-> id, token |-> incoming.token]
       IN
       /\ next_token_' = next_token_ + 1
       /\ next_sequence_' = next_sequence_ + 1
       /\ KeybindingVarsUnchanged
       /\ UNCHANGED fault
       /\ IF id \notin DOMAIN commands_
          THEN /\ commands_' = Put(commands_, id, incoming)
               /\ version_' = version_ + 1
               /\ result' = RegistrationResult("RegisterCommand", "kApplied", handle, NoConflict)
               /\ events' = <<Event("kCommand", id, "kApplied")>>
               /\ UNCHANGED <<command_shadow_, conflicts_>>
          ELSE
            LET existing_entry == commands_[id]
                resolution == ResolveCommandConflict(existing_entry, incoming)
            IN
            /\ conflicts_' = Append(conflicts_, resolution.conflict)
            /\ CASE resolution.decision = "kReplaceExisting" ->
                      /\ command_shadow_' = Put(command_shadow_, id,
                                                Append(ListAt(command_shadow_, id), existing_entry))
                      /\ commands_' = Put(commands_, id, incoming)
                      /\ version_' = version_ + 1
                      /\ result' = RegistrationResult("RegisterCommand", "kApplied", handle,
                                                      resolution.conflict)
                      /\ events' = <<Event("kCommand", existing_entry.descriptor.id, "kShadowed"),
                                     Event("kCommand", id, "kApplied")>>
                 [] resolution.decision = "kShadowIncoming" ->
                      /\ command_shadow_' = Put(command_shadow_, id,
                                                Append(ListAt(command_shadow_, id), incoming))
                      /\ version_' = version_ + 1
                      /\ result' = RegistrationResult("RegisterCommand", "kShadowed", handle,
                                                      resolution.conflict)
                      /\ events' = <<Event("kCommand", id, "kShadowed")>>
                      /\ UNCHANGED commands_
                 [] resolution.decision = "kRejectIncoming" ->
                      /\ result' = RegistrationResult("RegisterCommand", "kRejected", NoHandle,
                                                      resolution.conflict)
                      /\ events' = << >>
                      /\ UNCHANGED <<commands_, command_shadow_, version_>>

(***************************************************************************)
(* Registry::RegisterKeybinding                                            *)
(***************************************************************************)
RegisterKeybinding(registration, origin) ==
  LET descriptor == registration.descriptor
      id == descriptor.id
  IN
  /\ fault = "none"
  /\ IF id = ""
     THEN RejectEarly("RegisterKeybinding",
            Conflict("kKeybinding", "", origin, origin, "Keybinding id must not be empty"))
     ELSE IF descriptor.gesture = ""
     THEN RejectEarly("RegisterKeybinding",
            Conflict("kKeybinding", id, origin, origin, "Keybinding gesture must not be empty"))
     ELSE IF id \in DOMAIN keybindings_by_id_
     THEN RejectEarly("RegisterKeybinding",
            Conflict("kKeybinding", id, keybindings_by_id_[id].origin, origin,
                     "Keybinding id already registered"))
     ELSE
       LET binding_key == ComposeBindingKey(descriptor.mode, descriptor.gesture)
           incoming == [descriptor |-> descriptor,
                        origin |-> origin,
                        priority |-> registration.priority,
                        token |-> next_token_,
                        sequence |-> next_sequence_,
                        binding_key |-> binding_key]
           handle == [resource |-> "kKeybinding", id |-> id, token |-> incoming.token]
           token_to_key == Put(keybinding_token_to_key_, incoming.token, binding_key)
       IN
       /\ CommandVarsUnchanged
       /\ IF binding_key \notin DOMAIN keybinding_active_key_to_id_
          THEN /\ keybindings_by_id_' = Put(keybindings_by_id_, id, incoming)
               /\ keybinding_active_key_to_id_' = Put(keybinding_active_key_to_id_, binding_key, id)
               /\ keybinding_token_to_key_' = token_to_key
               /\ next_token_' = next_token_ + 1
               /\ next_sequence_' = next_sequence_ + 1
               /\ version_' = version_ + 1
               /\ result' = RegistrationResult("RegisterKeybinding", "kApplied", handle, NoConflict)
               /\ events' = <<Event("kKeybinding", id, "kApplied")>>
               /\ UNCHANGED <<keybinding_shadow_, conflicts_, fault>>
          ELSE IF keybinding_active_key_to_id_[binding_key] \notin DOMAIN keybindings_by_id_
          THEN \* assert(existing_it != keybindings_by_id_.end()) fails: abort() in a
               \* build with assertions, a read through the end iterator (a null node
               \* pointer) without them. Either way the process dies inside the call.
               /\ fault' \in {"assert", "segv"}
               /\ UNCHANGED <<keybindings_by_id_, keybinding_active_key_to_id_,
                              keybinding_shadow_, keybinding_token_to_key_, conflicts_,
                              version_, next_token_, next_sequence_, result, events>>
          ELSE
            LET occupant_id == keybinding_active_key_to_id_[binding_key]
                existing_entry == keybindings_by_id_[occupant_id]
                resolution == ResolveKeybindingConflict(existing_entry, incoming)
            IN
            /\ conflicts_' = Append(conflicts_, resolution.conflict)
            /\ next_token_' = next_token_ + 1
            /\ next_sequence_' = next_sequence_ + 1
            /\ UNCHANGED fault
            /\ CASE resolution.decision = "kReplaceExisting" ->
                      /\ keybinding_shadow_' =
                           Put(keybinding_shadow_, binding_key,
                               Append(ListAt(keybinding_shadow_, binding_key), existing_entry))
                      /\ keybindings_by_id_' = Put(Erase(keybindings_by_id_, occupant_id), id, incoming)
                      /\ keybinding_active_key_to_id_' =
                           Put(keybinding_active_key_to_id_, binding_key, id)
                      /\ keybinding_token_to_key_' = token_to_key
                      /\ version_' = version_ + 1
                      /\ result' = RegistrationResult("RegisterKeybinding", "kApplied", handle,
                                                      resolution.conflict)
                      /\ events' = <<Event("kKeybinding", existing_entry.descriptor.id, "kShadowed"),
                                     Event("kKeybinding", id, "kApplied")>>
                 [] resolution.decision = "kShadowIncoming" ->
                      /\ keybinding_shadow_' =
                           Put(keybinding_shadow_, binding_key,
                               Append(ListAt(keybinding_shadow_, binding_key), incoming))
                      /\ keybinding_token_to_key_' = token_to_key
                      /\ version_' = version_ + 1
                      /\ result' = RegistrationResult("RegisterKeybinding", "kShadowed", handle,
                                                      resolution.conflict)
                      /\ events' = <<Event("kKeybinding", id, "kShadowed")>>
                      /\ UNCHANGED <<keybindings_by_id_, keybinding_active_key_to_id_>>
                 [] resolution.decision = "kRejectIncoming" ->
                      /\ keybinding_token_to_key_' = Erase(token_to_key, incoming.token)
                      /\ result' = RegistrationResult("RegisterKeybinding", "kRejected", NoHandle,
                                                      resolution.conflict)
                      /\ events' = << >>
                      /\ UNCHANGED <<keybindings_by_id_, keybinding_active_key_to_id_,
                                     keybinding_shadow_, version_>>

(***************************************************************************)
(* Registry::Unregister                                                    *)
(***************************************************************************)
UnregisterResult(success) == [op |-> "Unregister", success |-> success]

UnregisterNothing ==
  /\ result' = UnregisterResult(FALSE)
  /\ events' = << >>
  /\ UNCHANGED <<version_, conflicts_, next_token_, next_sequence_, fault>>
  /\ CommandVarsUnchanged
  /\ KeybindingVarsUnchanged

\* a variant of UnregisterCommand that takes an entry off a shadow stack
\* without a new version
UnregisterCommand_SilentShadowRemoval(handle) ==
  IF handle.id \in DOMAIN commands_ /\ commands_[handle.id].token = handle.token
  THEN LET after == PromoteCommandShadow(
                      [commands |-> Erase(commands_, handle.id),
                       command_shadow |-> command_shadow_,
                       version |-> version_], handle.id)
       IN /\ commands_' = after.commands
          /\ command_shadow_' = after.command_shadow
          /\ version_' = after.version + 1
          /\ result' = UnregisterResult(TRUE)
          /\ events' = <<Event("kCommand", handle.id, "kRejected")>>
          /\ UNCHANGED <<conflicts_, next_token_, next_sequence_, fault>>
          /\ KeybindingVarsUnchanged
  ELSE IF handle.id \in DOMAIN command_shadow_
          /\ RemoveToken(command_shadow_[handle.id], handle.token) # command_shadow_[handle.id]
  THEN LET list == RemoveToken(command_shadow_[handle.id], handle.token)
       IN /\ command_shadow_' = IF list = << >> THEN Erase(command_shadow_, handle.id)
                                ELSE Put(command_shadow_, handle.id, list)
          /\ version_' = version_
          /\ result' = UnregisterResult(TRUE)
          /\ events' = << >>
          /\ UNCHANGED <<commands_, conflicts_, next_token_, next_sequence_, fault>>
          /\ KeybindingVarsUnchanged
  ELSE UnregisterNothing

UnregisterCommand(handle) ==
  IF handle.id \in DOMAIN commands_ /\ commands_[handle.id].token = handle.token
  THEN LET after == PromoteCommandShadow(
                      [commands |-> Erase(commands_, handle.id),
                       command_shadow |-> command_shadow_,
                       version |-> version_], handle.id)
       IN /\ commands_' = after.commands
          /\ command_shadow_' = after.command_shadow
          /\ version_' = after.version + 1
          /\ result' = UnregisterResult(TRUE)
          /\ events' = <<Event("kCommand", handle.id, "kRejected")>>
          /\ UNCHANGED <<conflicts_, next_token_, next_sequence_, fault>>
          /\ KeybindingVarsUnchanged
  ELSE IF handle.id \in DOMAIN command_shadow_
          /\ RemoveToken(command_shadow_[handle.id], handle.token) # command_shadow_[handle.id]
  THEN LET list == RemoveToken(command_shadow_[handle.id], handle.token)
       IN /\ command_shadow_' = IF list = << >> THEN Erase(command_shadow_, handle.id)
                                ELSE Put(command_shadow_, handle.id, list)
          /\ version_' = version_ + 1
          /\ result' = UnregisterResult(TRUE)
          /\ events' = << >>
          /\ UNCHANGED <<commands_, conflicts_, next_token_, next_sequence_, fault>>
          /\ KeybindingVarsUnchanged
  ELSE UnregisterNothing

UnregisterKeybinding(handle) ==
  IF handle.id \in DOMAIN keybindings_by_id_
     /\ keybindings_by_id_[handle.id].token = handle.token
  THEN LET binding_key == keybindings_by_id_[handle.id].binding_key
           after == PromoteKeybindingShadow(
                      [by_id |-> Erase(keybindings_by_id_, handle.id),
                       key_to_id |-> Erase(keybinding_active_key_to_id_, binding_key),
                       token_to_key |-> Erase(keybinding_token_to_key_, handle.token),
                       shadow |-> keybinding_shadow_,
                       version |-> version_], binding_key)
       IN /\ keybindings_by_id_' = after.by_id
          /\ keybinding_active_key_to_id_' = after.key_to_id
          /\ keybinding_token_to_key_' = after.token_to_key
          /\ keybinding_shadow_' = after.shadow
          /\ version_' = after.version + 1
          /\ result' = UnregisterResult(TRUE)
          /\ events' = <<Event("kKeybinding", handle.id, "kRejected")>>
          /\ UNCHANGED <<conflicts_, next_token_, next_sequence_, fault>>
          /\ CommandVarsUnchanged
  ELSE IF handle.token \in DOMAIN keybinding_token_to_key_
          /\ keybinding_token_to_key_[handle.token] \in DOMAIN keybinding_shadow_
          /\ RemoveToken(keybinding_shadow_[keybinding_token_to_key_[handle.token]], handle.token)
               # keybinding_shadow_[keybinding_token_to_key_[handle.token]]
  THEN LET key == keybinding_token_to_key_[handle.token]
           list == RemoveToken(keybinding_shadow_[key], handle.token)
       IN /\ keybinding_shadow_' = IF list = << >> THEN Erase(keybinding_shadow_, key)
                                   ELSE Put(keybinding_shadow_, key, list)
          /\ keybinding_token_to_key_' = Erase(keybinding_token_to_key_, handle.token)
          /\ version_' = version_ + 1
          /\ result' = UnregisterResult(TRUE)
          /\ events' = << >>
          /\ UNCHANGED <<keybindings_by_id_, keybinding_active_key_to_id_, conflicts_,
                         next_token_, next_sequence_, fault>>
          /\ CommandVarsUnchanged
  ELSE UnregisterNothing

Unregister(handle) ==
  /\ fault = "none"
  /\ IF ~HandleIsValid(handle) THEN UnregisterNothing
     ELSE CASE handle.resource = "kCommand" -> UnregisterCommand(handle)
            [] handle.resource = "kKeybinding" -> UnregisterKeybinding(handle)
            [] OTHER -> UnregisterNothing

(***************************************************************************)
(* Inputs of the calls.                                                    *)
(***************************************************************************)
\* who registers a command, and with which priority: Core/1 against User/0
\* sets rank against priority, User/0 against User/1 differs in priority alone
Contributions ==
  {[kind |-> "kCore", priority |-> 1], [kind |-> "kUser", priority |-> 0],
   [kind |-> "kUser", priority |-> 1]}

\* the contributions of the specification that mixes commands and keybindings
FewContributions ==
  {[kind |-> "kCore", priority |-> 0], [kind |-> "kPlugin", priority |-> 0]}

CoreContribution == {[kind |-> "kCore", priority |-> 0]}
PluginContribution == {[kind |-> "kPlugin", priority |-> 0]}

\* the contributions of the specification of keybindings on two binding keys
KeybindingContributions ==
  {[kind |-> "kCore", priority |-> 0], [kind |-> "kPlugin", priority |-> 0],
   [kind |-> "kPlugin", priority |-> 1]}

NativeCallable == [native_callback |-> TRUE, rpc_endpoint |-> ""]
EmptyCallable == [native_callback |-> FALSE, rpc_endpoint |-> ""]

CommandDescriptor(id, modes, undo_scope) ==
  [id |-> id, modes |-> modes, parameters |-> << >>, undo_scope |-> undo_scope]

\* payloads of RegisterCommand: "save" with two signatures
CommandPayloads ==
  {[descriptor |-> CommandDescriptor("save", <<"kNormal">>, "kNone"), callable |-> NativeCallable],
   [descriptor |-> CommandDescriptor("save", <<"kNormal">>, "kBuffer"), callable |-> NativeCallable]}

\* payloads RegisterCommand turns away before it looks at the registry: an
\* empty id, no callable
InvalidCommandPayloads ==
  {[descriptor |-> CommandDescriptor("", <<"kNormal">>, "kNone"), callable |-> NativeCallable],
   [descriptor |-> CommandDescriptor("save", <<"kNormal">>, "kNone"), callable |-> EmptyCallable]}

KeybindingDescriptor(id, command_id, mode, gesture) ==
  [id |-> id, command_id |-> command_id, mode |-> mode, gesture |-> gesture]

\* descriptors of RegisterKeybinding on the binding key of (Normal, "x")
KeybindingDescriptorsX ==
  {KeybindingDescriptor("a", "save", "kNormal", "x"),
   KeybindingDescriptor("b", "open", "kNormal", "x")}

\* and on the binding key of (Any, "y")
KeybindingDescriptorsY ==
  {KeybindingDescriptor("a", "save", "kAny", "y"),
   KeybindingDescriptor("c", "save", "kAny", "y")}

\* descriptors RegisterKeybinding turns away: an empty id, an empty gesture
InvalidKeybindingDescriptors ==
  {KeybindingDescriptor("", "save", "kNormal", "x"),
   KeybindingDescriptor("c", "save", "kNormal", "")}

\* handles a caller can hold or make up
CommandHandles(ids, tokens) == [resource : {"kCommand"}, id : ids, token : tokens]
KeybindingHandles(ids, tokens) == [resource : {"kKeybinding"}, id : ids, token : tokens]
OtherHandles ==
  {[resource |-> "kTheme", id |-> "save", token |-> 1],
   [resource |-> "kCommand", id |-> "a", token |-> 1],
   [resource |-> "kKeybinding", id |-> "save", token |-> 1]}

\* a call seen as one step, from the call to the return, without subscribers
OutsideRegistryUnchanged == UNCHANGED <<NotifyVars, LoopVars, EditorVars, ThreadVars>>

\* room for one more Register call
Budget(max_token) == next_token_ <= max_token /\ Len(conflicts_) < MaxConflicts

RegisterCommandFrom(payloads, contributions) ==
  \E payload \in payloads, c \in contributions :
    RegisterCommand([descriptor |-> payload.descriptor, callable |-> payload.callable,
                     priority |-> c.priority], [kind |-> c.kind])

RegisterKeybindingFrom(descriptors, contributions) ==
  \E descriptor \in descriptors, c \in contributions :
    RegisterKeybinding([descriptor |-> descriptor, priority |-> c.priority], [kind |-> c.kind])

UnregisterFrom(handles) == \E handle \in handles : Unregister(handle)

\* commands and keybindings together, on one id and one binding key
\* (a call turned away in validation is made from one origin: nothing but the
\* origins of its ConflictRecord depends on who makes it)
RegisterCommandStep ==
  /\ OutsideRegistryUnchanged
  /\ Budget(MaxMixedToken)
  /\ \/ RegisterCommandFrom(CommandPayloads, FewContributions)
     \/ RegisterCommandFrom(InvalidCommandPayloads, CoreContribution)
RegisterKeybindingStep ==
  /\ OutsideRegistryUnchanged
  /\ Budget(MaxMixedToken)
  /\ \/ RegisterKeybindingFrom(KeybindingDescriptorsX, FewContributions)
     \/ RegisterKeybindingFrom(InvalidKeybindingDescriptors, CoreContribution)
MixedHandles ==
  CommandHandles({"save"}, 0..MaxMixedToken)
    \cup KeybindingHandles({"a", "b"}, 0..MaxMixedToken) \cup OtherHandles
UnregisterStep == UnregisterFrom(MixedHandles) /\ OutsideRegistryUnchanged
Next == RegisterCommandStep \/ RegisterKeybindingStep \/ UnregisterStep
Spec == Init /\ [][Next]_vars

\* commands alone
RegisterCommandAny ==
  /\ OutsideRegistryUnchanged
  /\ Budget(MaxToken)
  /\ RegisterCommandFrom(CommandPayloads \cup InvalidCommandPayloads, Contributions)
UnregisterCommandAny ==
  /\ UnregisterFrom(CommandHandles({"save"}, 0..MaxToken) \cup OtherHandles)
  /\ OutsideRegistryUnchanged
NextCommands == RegisterCommandAny \/ UnregisterCommandAny
SpecCommands == Init /\ [][NextCommands]_vars

\* keybindings alone, on two binding keys
RegisterKeybindingAny ==
  /\ OutsideRegistryUnchanged
  /\ Budget(MaxKeybindingToken)
  /\ RegisterKeybindingFrom(KeybindingDescriptorsX \cup KeybindingDescriptorsY,
                            KeybindingContributions)
UnregisterKeybindingAny ==
  /\ UnregisterFrom(KeybindingHandles({"a", "b", "c"}, 0..MaxKeybindingToken) \cup OtherHandles)
  /\ OutsideRegistryUnchanged
NextKeybindings == RegisterKeybindingAny \/ UnregisterKeybindingAny
SpecKeybindings == Init /\ [][NextKeybindings]_vars

(***************************************************************************)
(* Subscribers and the registry mutex. One thread calls into the registry; *)
(* a call is a frame of call_stack that moves from the scoped_lock over    *)
(* the bookkeeping to Notify and the callbacks, and a callback may call    *)
(* into the registry again.                                                *)
(*   pc "lock"      before std::scoped_lock lock(mutex_)                   *)
(*   pc "locked"    bookkeeping done, the lock scope not yet left          *)
(*   pc "notify"    in the loop `for (event : events) Notify(event)`       *)
(*   pc "copied"    Notify holds the mutex and has copied the callbacks    *)
(*   pc "callbacks" Notify invokes the copied callbacks one after another  *)
(***************************************************************************)
MaxSubscribers == 2
\* how deep callbacks call back into the registry
MaxDepth == 2
\* the token bound of the specification with subscribers
MaxNotifyToken == 2

Top == call_stack[Len(call_stack)]
SetTop(frame) == [call_stack EXCEPT ![Len(call_stack)] = frame]
Pop == SubSeq(call_stack, 1, Len(call_stack) - 1)

InsertAt(list, i, x) == SubSeq(list, 1, i - 1) \o <<x>> \o SubSeq(list, i, Len(list))
Remove(list, x) == SelectSeq(list, LAMBDA y : y # x)

\* a call of `op`; the fields the operation does not take keep a default
Frame(op, payload, descriptor, c, handle, subscription) ==
  [op |-> op, payload |-> payload, descriptor |-> descriptor, c |-> c, handle |-> handle,
   subscription |-> subscription, pc |-> "lock", events |-> << >>, callbacks |-> << >>]

NoPayload == [descriptor |-> CommandDescriptor("", << >>, "kNone"), callable |-> EmptyCallable]
NoDescriptor == KeybindingDescriptor("", "", "kAny", "")
NoContribution == [kind |-> "kCore", priority |-> 0]

\* the calls the application or a callback can make in the current state;
\* the subscription of a Subscribe call is 1 for a callable callback and 0
\* for an empty one
RegisterCommandCalls ==
  IF Budget(MaxNotifyToken)
  THEN {Frame("RegisterCommand", payload, NoDescriptor, c, NoHandle, 0) :
          payload \in {p \in CommandPayloads : p.descriptor.undo_scope = "kNone"},
          c \in FewContributions}
  ELSE {}
RegisterKeybindingCalls ==
  IF Budget(MaxNotifyToken)
  THEN {Frame("RegisterKeybinding", NoPayload, descriptor, c, NoHandle, 0) :
          descriptor \in KeybindingDescriptorsX, c \in PluginContribution}
  ELSE {}
UnregisterCalls ==
  {Frame("Unregister", NoPayload, NoDescriptor, NoContribution, handle, 0) :
     handle \in CommandHandles({"save"}, 0..MaxNotifyToken)
                  \cup KeybindingHandles({"a"}, 1..MaxNotifyToken)}
SubscribeCalls ==
  IF next_subscription_token_ <= MaxSubscribers
  THEN {Frame("Subscribe", NoPayload, NoDescriptor, NoContribution, NoHandle, callable) :
          callable \in {0, 1}}
  ELSE {}
UnsubscribeCalls ==
  {Frame("Unsubscribe", NoPayload, NoDescriptor, NoContribution, NoHandle, token) :
     token \in 0..MaxSubscribers}
Calls ==
  RegisterCommandCalls \cup RegisterKeybindingCalls \cup UnregisterCalls
    \cup SubscribeCalls \cup UnsubscribeCalls

\* the calls a callback makes: one of each operation
CallbackCalls ==
  {call \in Calls :
     \/ call.op = "RegisterCommand" /\ call.c.kind = "kPlugin"
     \/ call.op = "RegisterKeybinding" /\ call.c.kind = "kPlugin"
                                       /\ call.descriptor.id = "b"
     \/ call.op = "Unregister" /\ call.handle.token = 1
     \/ call.op = "Subscribe" /\ call.subscription = 1
     \/ call.op = "Unsubscribe" /\ call.subscription = 1}

\* the application calls a registry operation
BeginCall ==
  /\ call_stack = << >>
  /\ fault = "none"
  /\ \E call \in Calls : call_stack' = <<call>>
  /\ UNCHANGED <<RegistryVars, subscribers_, next_subscription_token_, mutex_>>
  /\ UNCHANGED <<LoopVars, EditorVars, ThreadVars>>

\* Unregister, Subscribe and Unsubscribe return before the lock for a handle
\* with token 0, an empty callback and the token 0
ReturnsBeforeLock(frame) ==
  \/ frame.op = "Unregister" /\ ~HandleIsValid(frame.handle)
  \/ frame.op = "Subscribe" /\ frame.subscription = 0
  \/ frame.op = "Unsubscribe" /\ frame.subscription = 0

ReturnBeforeLock ==
  /\ call_stack # << >>
  /\ Top.pc = "lock"
  /\ ReturnsBeforeLock(Top)
  /\ call_stack' = Pop
  /\ UNCHANGED <<RegistryVars, subscribers_, next_subscription_token_, mutex_>>
  /\ UNCHANGED <<LoopVars, EditorVars, ThreadVars>>

\* Registry::Subscribe under the lock: the place the new element takes in
\* the iteration order of the std::unordered_map is not specified
Subscribe ==
  /\ \E i \in 1..(Len(subscribers_) + 1) :
       subscribers_' = InsertAt(subscribers_, i, next_subscription_token_)
  /\ next_subscription_token_' = next_subscription_token_ + 1
  /\ UNCHANGED RegistryVars

\* Registry::Unsubscribe under the lock: erase keeps the order of the rest
Unsubscribe(token) ==
  /\ subscribers_' = Remove(subscribers_, token)
  /\ UNCHANGED <<RegistryVars, next_subscription_token_>>

\* std::scoped_lock lock(mutex_) and the statements up to the end of its scope
LockScope(frame) ==
  /\ mutex_ = "free"
  /\ mutex_' = "held"
  /\ call_stack' = SetTop(frame)
  /\ UNCHANGED <<LoopVars, EditorVars, ThreadVars>>

\* a call takes the mutex and does its bookkeeping
LockAndUpdate ==
  /\ call_stack # << >>
  /\ Top.pc = "lock"
  /\ ~ReturnsBeforeLock(Top)
  /\ \/ /\ Top.op = "RegisterCommand"
        /\ RegisterCommand([descriptor |-> Top.payload.descriptor,
                            callable |-> Top.payload.callable,
                            priority |-> Top.c.priority], [kind |-> Top.c.kind])
        /\ UNCHANGED <<subscribers_, next_subscription_token_>>
        /\ LockScope([Top EXCEPT !.pc = "locked", !.events = events'])
     \/ /\ Top.op = "RegisterKeybinding"
        /\ RegisterKeybinding([descriptor |-> Top.descriptor, priority |-> Top.c.priority],
                              [kind |-> Top.c.kind])
        /\ UNCHANGED <<subscribers_, next_subscription_token_>>
        /\ LockScope([Top EXCEPT !.pc = "locked", !.events = events'])
     \/ /\ Top.op = "Unregister"
        /\ Unregister(Top.handle)
        /\ UNCHANGED <<subscribers_, next_subscription_token_>>
        /\ LockScope([Top EXCEPT !.pc = "locked", !.events = events'])
     \/ /\ Top.op = "Subscribe"
        /\ Subscribe
        /\ LockScope([Top EXCEPT !.pc = "locked"])
     \/ /\ Top.op = "Unsubscribe"
        /\ Unsubscribe(Top.subscription)
        /\ LockScope([Top EXCEPT !.pc = "locked"])

\* a variant of Unlock that leaves the lock scope with the mutex held
Unlock_Never ==
  /\ call_stack # << >>
  /\ Top.pc = "locked"
  /\ call_stack' = SetTop([Top EXCEPT !.pc = "notify"])
  /\ UNCHANGED <<RegistryVars, subscribers_, next_subscription_token_, mutex_>>
  /\ UNCHANGED <<LoopVars, EditorVars, ThreadVars>>

\* the end of the lock scope of a call
Unlock ==
  /\ call_stack # << >>
  /\ Top.pc = "locked"
  /\ mutex_' = "free"
  /\ call_stack' = SetTop([Top EXCEPT !.pc = "notify"])
  /\ UNCHANGED <<RegistryVars, subscribers_, next_subscription_token_>>
  /\ UNCHANGED <<LoopVars, EditorVars, ThreadVars>>

\* Notify(event): lock, copy every callback of subscribers_ in its iteration order
NotifyCopy ==
  /\ call_stack # << >>
  /\ Top.pc = "notify"
  /\ Top.events # << >>
  /\ LockScope([Top EXCEPT !.pc = "copied", !.callbacks = subscribers_])
  /\ UNCHANGED <<RegistryVars, subscribers_, next_subscription_token_>>
  /\ UNCHANGED <<LoopVars, EditorVars, ThreadVars>>

\* Notify(event): the end of the lock scope
NotifyUnlock ==
  /\ call_stack # << >>
  /\ Top.pc = "copied"
  /\ mutex_' = "free"
  /\ call_stack' = SetTop([Top EXCEPT !.pc = "callbacks"])
  /\ UNCHANGED <<RegistryVars, subscribers_, next_subscription_token_>>
  /\ UNCHANGED <<LoopVars, EditorVars, ThreadVars>>

\* callback(event) for the next copied callback, which does not call the registry
InvokeCallback ==
  /\ call_stack # << >>
  /\ Top.pc = "callbacks"
  /\ Top.callbacks # << >>
  /\ call_stack' = SetTop([Top EXCEPT !.callbacks = Tail(@)])
  /\ UNCHANGED <<RegistryVars, subscribers_, next_subscription_token_, mutex_>>
  /\ UNCHANGED <<LoopVars, EditorVars, ThreadVars>>

\* callback(event) for the next copied callback, which calls the registry
CallbackReenters ==
  /\ call_stack # << >>
  /\ Top.pc = "callbacks"
  /\ Top.callbacks # << >>
  /\ Len(call_stack) < MaxDepth
  /\ \E call \in CallbackCalls :
       call_stack' = Append(SetTop([Top EXCEPT !.callbacks = Tail(@)]), call)
  /\ UNCHANGED <<RegistryVars, subscribers_, next_subscription_token_, mutex_>>
  /\ UNCHANGED <<LoopVars, EditorVars, ThreadVars>>

\* Notify(event) returns: on to the next event of the call
NotifyReturn ==
  /\ call_stack # << >>
  /\ Top.pc = "callbacks"
  /\ Top.callbacks = << >>
  /\ call_stack' = SetTop([Top EXCEPT !.pc = "notify", !.events = Tail(@)])
  /\ UNCHANGED <<RegistryVars, subscribers_, next_subscription_token_, mutex_>>
  /\ UNCHANGED <<LoopVars, EditorVars, ThreadVars>>

\* the call returns to the application or to the callback that made it
Return ==
  /\ call_stack # << >>
  /\ Top.pc = "notify"
  /\ Top.events = << >>
  /\ call_stack' = Pop
  /\ UNCHANGED <<RegistryVars, subscribers_, next_subscription_token_, mutex_>>
  /\ UNCHANGED <<LoopVars, EditorVars, ThreadVars>>

NextNotify ==
  \/ BeginCall
  \/ ReturnBeforeLock
  \/ LockAndUpdate
  \/ Unlock
  \/ NotifyCopy
  \/ NotifyUnlock
  \/ InvokeCallback
  \/ CallbackReenters
  \/ NotifyReturn
  \/ Return
SpecNotify == Init /\ [][NextNotify]_vars

(***************************************************************************)
(* Two threads call the registry at the same time. Each thread goes        *)
(* through the statements of its call as the single thread above does:     *)
(* scoped_lock and bookkeeping, the end of the lock scope, and for every   *)
(* event Notify, which copies the callbacks under the mutex and invokes    *)
(* the copies after it has released the mutex. The callbacks of this       *)
(* specification do not call the registry.                                 *)
(***************************************************************************)
\* the token bound of the specification with two threads
MaxThreadToken == 2
MaxThreadSubscribers == 1

ThreadCall(op, c, handle, subscription) ==
  [op |-> op, c |-> c, handle |-> handle, subscription |-> subscription, pc |-> "lock",
   events |-> << >>, callbacks |-> << >>, returned |-> FALSE]

\* the payload of the RegisterCommand calls of the threads
ThreadPayload == [descriptor |-> CommandDescriptor("save", <<"kNormal">>, "kNone"),
                  callable |-> NativeCallable]

\* the calls of `op` that have not yet taken the mutex
Waiting(op) ==
  Cardinality({thread \in Threads : thread_calls[thread].op = op
                                      /\ thread_calls[thread].pc = "lock"})

\* the calls a thread can make: room for them is kept over the calls that wait
ThreadCalls ==
  (IF /\ next_token_ + Waiting("RegisterCommand") <= MaxThreadToken
      /\ Len(conflicts_) + Waiting("RegisterCommand") < MaxConflicts
   THEN {ThreadCall("RegisterCommand", c, NoHandle, 0) : c \in FewContributions}
   ELSE {})
    \cup {ThreadCall("Unregister", NoContribution, handle, 0) :
            handle \in CommandHandles({"save"}, 0..MaxThreadToken)}
    \cup (IF next_subscription_token_ + Waiting("Subscribe") <= MaxThreadSubscribers
          THEN {ThreadCall("Subscribe", NoContribution, NoHandle, callable) :
                  callable \in {0, 1}}
          ELSE {})
    \cup {ThreadCall("Unsubscribe", NoContribution, NoHandle, token) :
            token \in 0..MaxThreadSubscribers}

SetCall(thread, call) == thread_calls' = [thread_calls EXCEPT ![thread] = call]

HistoryUnchanged == UNCHANGED <<applied_changes, delivered, unsubscribed>>
OutsideThreadsUnchanged == UNCHANGED <<call_stack, LoopVars, EditorVars>>

\* the events of a call, each with its place in the order of the changes
Numbered(list, first) == [i \in 1..Len(list) |-> [event |-> list[i], change |-> first + i]]

\* a thread calls a registry operation
ThreadBeginCall(thread) ==
  /\ thread_calls[thread].pc = "idle"
  /\ fault = "none"
  /\ \E call \in ThreadCalls : SetCall(thread, call)
  /\ UNCHANGED <<RegistryVars, subscribers_, next_subscription_token_, mutex_>>
  /\ HistoryUnchanged
  /\ OutsideThreadsUnchanged

\* the call of a thread returns false before the lock
ThreadReturnBeforeLock(thread) ==
  /\ thread_calls[thread].pc = "lock"
  /\ ReturnsBeforeLock(thread_calls[thread])
  /\ SetCall(thread, NoCall)
  /\ UNCHANGED <<RegistryVars, subscribers_, next_subscription_token_, mutex_>>
  /\ HistoryUnchanged
  /\ OutsideThreadsUnchanged

\* a thread takes the mutex and does the bookkeeping of its call
ThreadLockAndUpdate(thread) ==
  LET call == thread_calls[thread] IN
  /\ call.pc = "lock"
  /\ ~ReturnsBeforeLock(call)
  /\ mutex_ = "free"
  /\ mutex_' = "held"
  /\ \/ /\ call.op = "RegisterCommand"
        /\ RegisterCommand([descriptor |-> ThreadPayload.descriptor,
                            callable |-> ThreadPayload.callable,
                            priority |-> call.c.priority], [kind |-> call.c.kind])
        /\ UNCHANGED <<subscribers_, next_subscription_token_>>
     \/ /\ call.op = "Unregister"
        /\ Unregister(call.handle)
        /\ UNCHANGED <<subscribers_, next_subscription_token_>>
     \/ /\ call.op = "Subscribe"
        /\ Subscribe
     \/ /\ call.op = "Unsubscribe"
        /\ Unsubscribe(call.subscription)
  /\ LET changes == IF call.op \in {"RegisterCommand", "Unregister"} THEN events' ELSE << >> IN
       /\ applied_changes' = applied_changes \o changes
       /\ SetCall(thread, [call EXCEPT !.pc = "locked",
                                       !.events = Numbered(changes, Len(applied_changes)),
                                       !.returned = \E i \in DOMAIN subscribers_ :
                                                      subscribers_[i] = call.subscription])
  /\ UNCHANGED <<delivered, unsubscribed>>
  /\ OutsideThreadsUnchanged

\* the end of the lock scope of the call of a thread
ThreadUnlock(thread) ==
  /\ thread_calls[thread].pc = "locked"
  /\ mutex_' = "free"
  /\ SetCall(thread, [thread_calls[thread] EXCEPT !.pc = "notify"])
  /\ UNCHANGED <<RegistryVars, subscribers_, next_subscription_token_>>
  /\ HistoryUnchanged
  /\ OutsideThreadsUnchanged

\* Notify(event) on a thread: lock, copy every callback of subscribers_
ThreadNotifyCopy(thread) ==
  /\ thread_calls[thread].pc = "notify"
  /\ thread_calls[thread].events # << >>
  /\ mutex_ = "free"
  /\ mutex_' = "held"
  /\ SetCall(thread, [thread_calls[thread] EXCEPT !.pc = "copied", !.callbacks = subscribers_])
  /\ UNCHANGED <<RegistryVars, subscribers_, next_subscription_token_>>
  /\ HistoryUnchanged
  /\ OutsideThreadsUnchanged

\* Notify(event) on a thread: the end of the lock scope, before the callbacks
ThreadNotifyUnlock(thread) ==
  /\ thread_calls[thread].pc = "copied"
  /\ mutex_' = "free"
  /\ SetCall(thread, [thread_calls[thread] EXCEPT !.pc = "callbacks"])
  /\ UNCHANGED <<RegistryVars, subscribers_, next_subscription_token_>>
  /\ HistoryUnchanged
  /\ OutsideThreadsUnchanged

\* callback(event) on a thread for the next copied callback
ThreadInvokeCallback(thread) ==
  LET call == thread_calls[thread] IN
  /\ call.pc = "callbacks"
  /\ call.callbacks # << >>
  /\ delivered' = Append(delivered, [token |-> Head(call.callbacks),
                                     event |-> Head(call.events).event,
                                     change |-> Head(call.events).change,
                                     thread |-> thread])
  /\ SetCall(thread, [call EXCEPT !.callbacks = Tail(@)])
  /\ UNCHANGED <<RegistryVars, subscribers_, next_subscription_token_, mutex_>>
  /\ UNCHANGED <<applied_changes, unsubscribed>>
  /\ OutsideThreadsUnchanged

\* Notify(event) returns on a thread: on to the next event of the call
ThreadNotifyReturn(thread) ==
  /\ thread_calls[thread].pc = "callbacks"
  /\ thread_calls[thread].callbacks = << >>
  /\ SetCall(thread, [thread_calls[thread] EXCEPT !.pc = "notify", !.events = Tail(@)])
  /\ UNCHANGED <<RegistryVars, subscribers_, next_subscription_token_, mutex_>>
  /\ HistoryUnchanged
  /\ OutsideThreadsUnchanged

\* the call of a thread returns; Unsubscribe returns whether it erased the token
ThreadReturn(thread) ==
  LET call == thread_calls[thread] IN
  /\ call.pc = "notify"
  /\ call.events = << >>
  /\ unsubscribed' = IF call.op = "Unsubscribe" /\ call.returned
                     THEN unsubscribed \cup {call.subscription}
                     ELSE unsubscribed
  /\ SetCall(thread, NoCall)
  /\ UNCHANGED <<RegistryVars, subscribers_, next_subscription_token_, mutex_>>
  /\ UNCHANGED <<applied_changes, delivered>>
  /\ OutsideThreadsUnchanged

NextThreads ==
  \E thread \in Threads :
    \/ ThreadBeginCall(thread)
    \/ ThreadReturnBeforeLock(thread)
    \/ ThreadLockAndUpdate(thread)
    \/ ThreadUnlock(thread)
    \/ ThreadNotifyCopy(thread)
    \/ ThreadNotifyUnlock(thread)
    \/ ThreadInvokeCallback(thread)
    \/ ThreadNotifyReturn(thread)
    \/ ThreadReturn(thread)
SpecThreads == Init /\ [][NextThreads]_vars

(***************************************************************************)
(* The main loop and the input thread of core::EditorApp                   *)
(* (src/src/core/EditorApp.cpp) around core::EventQueue                    *)
(* (src/src/core/EventQueue.cpp).  A key event is its place in the order   *)
(* in which the key source produced it, and whether handling it ends in    *)
(* EditorState::RequestQuit; what HandleEvent does to the text is the      *)
(* subject of the editing model further down.                              *)
(***************************************************************************)
\* the key source produces at most MaxKeys key events
MaxKeys == 3

OutsideLoopUnchanged == UNCHANGED <<RegistryVars, NotifyVars, EditorVars, ThreadVars>>

KeyEvents(id) == [id : {id}, quits : BOOLEAN]

\* Run: PrepareScreen, LoadFile, StartInputLoop (the jthread starts), Render
StartInputLoop ==
  /\ main_pc = "start"
  /\ main_pc' = "run"
  /\ input_pc' = "check"
  /\ UNCHANGED <<produced, pushed, consumed, applied, events_, queue_mutex_,
                 input_event, batch, running_, stop_requested>>
  /\ OutsideLoopUnchanged

\* InputLoop: while (!token.stop_requested())
InputLoopCheck ==
  /\ input_pc = "check"
  /\ input_pc' = IF stop_requested THEN "done" ELSE "poll"
  /\ input_event' = NoKeyEvent
  /\ UNCHANGED <<produced, pushed, consumed, applied, events_, queue_mutex_,
                 main_pc, batch, running_, stop_requested>>
  /\ OutsideLoopUnchanged

\* a variant of Poll on a blocking read: it returns when a key arrives
Poll_Blocking ==
  /\ input_pc = "poll"
  /\ Len(produced) < MaxKeys
  /\ \E event \in KeyEvents(Len(produced) + 1) :
       /\ produced' = Append(produced, event)
       /\ input_event' = event
       /\ input_pc' = "push"
  /\ UNCHANGED <<pushed, consumed, applied, events_, queue_mutex_,
                 main_pc, batch, running_, stop_requested>>
  /\ OutsideLoopUnchanged

\* ConsoleKeySource::Poll: one read of a descriptor in non-blocking mode;
\* true with the key event when a key was waiting, false when none was
Poll ==
  /\ input_pc = "poll"
  /\ \/ /\ Len(produced) < MaxKeys
        /\ \E event \in KeyEvents(Len(produced) + 1) :
             /\ produced' = Append(produced, event)
             /\ input_event' = event
             /\ input_pc' = "push"
     \/ /\ input_pc' = "sleep"
        /\ UNCHANGED <<produced, input_event>>
  /\ UNCHANGED <<pushed, consumed, applied, events_, queue_mutex_,
                 main_pc, batch, running_, stop_requested>>
  /\ OutsideLoopUnchanged

\* InputLoop: std::this_thread::sleep_for(5ms) after a Poll without a key
InputLoopSleep ==
  /\ input_pc = "sleep"
  /\ input_pc' = "check"
  /\ UNCHANGED <<produced, pushed, consumed, applied, events_, queue_mutex_,
                 input_event, main_pc, batch, running_, stop_requested>>
  /\ OutsideLoopUnchanged

\* EventQueue::Push: std::lock_guard lock(mutex_)
PushLock ==
  /\ input_pc = "push"
  /\ queue_mutex_ = "free"
  /\ queue_mutex_' = "input"
  /\ input_pc' = "push_back"
  /\ UNCHANGED <<produced, pushed, consumed, applied, events_,
                 input_event, main_pc, batch, running_, stop_requested>>
  /\ OutsideLoopUnchanged

\* EventQueue::Push: events_.push_back(event)
PushBack ==
  /\ input_pc = "push_back"
  /\ events_' = Append(events_, input_event)
  /\ pushed' = Append(pushed, input_event)
  /\ input_pc' = "push_unlock"
  /\ UNCHANGED <<produced, consumed, applied, queue_mutex_,
                 input_event, main_pc, batch, running_, stop_requested>>
  /\ OutsideLoopUnchanged

\* EventQueue::Push returns: the lock_guard lets go of the mutex
PushUnlock ==
  /\ input_pc = "push_unlock"
  /\ queue_mutex_' = "free"
  /\ input_pc' = "check"
  /\ UNCHANGED <<produced, pushed, consumed, applied, events_,
                 input_event, main_pc, batch, running_, stop_requested>>
  /\ OutsideLoopUnchanged

\* Run: while (state_.IsRunning())
RunLoop ==
  /\ main_pc = "run"
  /\ main_pc' = IF running_ THEN "consume" ELSE "stop"
  /\ UNCHANGED <<produced, pushed, consumed, applied, events_, queue_mutex_,
                 input_pc, input_event, batch, running_, stop_requested>>
  /\ OutsideLoopUnchanged

\* EventQueue::ConsumeAll: std::lock_guard lock(mutex_)
ConsumeLock ==
  /\ main_pc = "consume"
  /\ queue_mutex_ = "free"
  /\ queue_mutex_' = "main"
  /\ main_pc' = "swap"
  /\ UNCHANGED <<produced, pushed, consumed, applied, events_,
                 input_pc, input_event, batch, running_, stop_requested>>
  /\ OutsideLoopUnchanged

\* a variant of ConsumeAll that copies events_ and leaves it as it is
ConsumeAll_Copy ==
  /\ main_pc = "swap"
  /\ batch' = events_
  /\ consumed' = consumed \o events_
  /\ main_pc' = "consume_unlock"
  /\ UNCHANGED <<produced, pushed, applied, events_, queue_mutex_,
                 input_pc, input_event, running_, stop_requested>>
  /\ OutsideLoopUnchanged

\* EventQueue::ConsumeAll: result.swap(events_) with an empty result
ConsumeAll ==
  /\ main_pc = "swap"
  /\ batch' = events_
  /\ events_' = << >>
  /\ consumed' = consumed \o events_
  /\ main_pc' = "consume_unlock"
  /\ UNCHANGED <<produced, pushed, applied, queue_mutex_,
                 input_pc, input_event, running_, stop_requested>>
  /\ OutsideLoopUnchanged

\* EventQueue::ConsumeAll returns: the lock_guard lets go of the mutex
ConsumeUnlock ==
  /\ main_pc = "consume_unlock"
  /\ queue_mutex_' = "free"
  /\ main_pc' = "handle"
  /\ UNCHANGED <<produced, pushed, consumed, applied, events_,
                 input_pc, input_event, batch, running_, stop_requested>>
  /\ OutsideLoopUnchanged

\* a variant of the loop of ProcessPendingEvents without the break
ProcessNextEvent_NoBreak ==
  /\ main_pc = "handle"
  /\ batch # << >>
  /\ applied' = Append(applied, Head(batch))
  /\ running_' = (running_ /\ ~Head(batch).quits)
  /\ batch' = Tail(batch)
  /\ main_pc' = "handle"
  /\ UNCHANGED <<produced, pushed, consumed, events_, queue_mutex_,
                 input_pc, input_event, stop_requested>>
  /\ OutsideLoopUnchanged

\* a variant of the loop of ProcessPendingEvents that walks the batch from its end
ProcessNextEvent_NewestFirst ==
  /\ main_pc = "handle"
  /\ batch # << >>
  /\ applied' = Append(applied, batch[Len(batch)])
  /\ running_' = (running_ /\ ~batch[Len(batch)].quits)
  /\ batch' = SubSeq(batch, 1, Len(batch) - 1)
  /\ main_pc' = IF running_' THEN "handle" ELSE "break"
  /\ UNCHANGED <<produced, pushed, consumed, events_, queue_mutex_,
                 input_pc, input_event, stop_requested>>
  /\ OutsideLoopUnchanged

\* ProcessPendingEvents, one turn of the loop: HandleEvent(event), then
\* `if (!state_.IsRunning()) break`
ProcessNextEvent ==
  /\ main_pc = "handle"
  /\ batch # << >>
  /\ applied' = Append(applied, Head(batch))
  /\ running_' = (running_ /\ ~Head(batch).quits)
  /\ batch' = Tail(batch)
  /\ main_pc' = IF running_' THEN "handle" ELSE "break"
  /\ UNCHANGED <<produced, pushed, consumed, events_, queue_mutex_,
                 input_pc, input_event, stop_requested>>
  /\ OutsideLoopUnchanged

\* ProcessPendingEvents returns, at the end of the batch or by the break;
\* Run: `if (!state_.IsRunning()) break`
ProcessPendingEventsReturn ==
  /\ \/ main_pc = "handle" /\ batch = << >>
     \/ main_pc = "break"
  /\ batch' = << >>
  /\ main_pc' = IF running_ THEN "render" ELSE "stop"
  /\ UNCHANGED <<produced, pushed, consumed, applied, events_, queue_mutex_,
                 input_pc, input_event, running_, stop_requested>>
  /\ OutsideLoopUnchanged

\* Run: Render() and the sleep to the end of the 16 ms frame
Render ==
  /\ main_pc = "render"
  /\ main_pc' = "run"
  /\ UNCHANGED <<produced, pushed, consumed, applied, events_, queue_mutex_,
                 input_pc, input_event, batch, running_, stop_requested>>
  /\ OutsideLoopUnchanged

\* StopInputLoop: input_thread_.request_stop()
StopInputLoop ==
  /\ main_pc = "stop"
  /\ stop_requested' = TRUE
  /\ main_pc' = "join"
  /\ UNCHANGED <<produced, pushed, consumed, applied, events_, queue_mutex_,
                 input_pc, input_event, batch, running_>>
  /\ OutsideLoopUnchanged

\* StopInputLoop: input_thread_.join() returns when InputLoop has returned
Join ==
  /\ main_pc = "join"
  /\ input_pc = "done"
  /\ main_pc' = "exit"
  /\ UNCHANGED <<produced, pushed, consumed, applied, events_, queue_mutex_,
                 input_pc, input_event, batch, running_, stop_requested>>
  /\ OutsideLoopUnchanged

InputThread ==
  \/ InputLoopCheck
  \/ Poll
  \/ InputLoopSleep
  \/ PushLock
  \/ PushBack
  \/ PushUnlock

MainThread ==
  \/ StartInputLoop
  \/ RunLoop
  \/ ConsumeLock
  \/ ConsumeAll
  \/ ConsumeUnlock
  \/ ProcessNextEvent
  \/ ProcessPendingEventsReturn
  \/ Render
  \/ StopInputLoop
  \/ Join

NextLoop == InputThread \/ MainThread
SpecLoop == Init /\ [][NextLoop]_vars

\* each thread that can take a step takes one in the end
SpecLoopFair == SpecLoop /\ WF_vars(InputThread) /\ WF_vars(MainThread)

(***************************************************************************)
(* What the registry answers: Registry::ResolveKeybinding and FindCommand. *)
(***************************************************************************)
NoRecord == [none |-> TRUE]

\* ResolveKeybinding(mode, gesture), as the entry it copies into the record
ResolveKeybinding(mode, gesture) ==
  LET binding_key == ComposeBindingKey(mode, gesture) IN
  IF binding_key \notin DOMAIN keybinding_active_key_to_id_ THEN NoRecord
  ELSE IF keybinding_active_key_to_id_[binding_key] \notin DOMAIN keybindings_by_id_ THEN NoRecord
  ELSE keybindings_by_id_[keybinding_active_key_to_id_[binding_key]]

\* FindCommand(id, include_shadow = false)
FindCommand(id) == IF id \in DOMAIN commands_ THEN commands_[id] ELSE NoRecord

(***************************************************************************)
(* The editing state: core::Buffer (src/src/core/Buffer.cpp),              *)
(* core::EditorState (src/src/core/EditorState.cpp) and the key handling   *)
(* of core::ModeController (src/src/core/ModeController.cpp).  A handler   *)
(* is an operator from the editing state before the key to the one after; *)
(* lines and columns are 0-based as in the source.                         *)
(***************************************************************************)
\* std::numeric_limits<int>::max()
IntMax == 2147483647
kMaxCountValue == 1000000

\* the session types at most MaxLines lines with at most MaxCharacters
\* characters in all, command lines of at most MaxCommandLength characters
\* and counts of at most MaxCountDigits digits
MaxLines == 3
MaxCharacters == 3
MaxCommandLength == 2
MaxCountDigits == 1

Min(a, b) == IF a < b THEN a ELSE b
Max(a, b) == IF a > b THEN a ELSE b
\* std::clamp(value, low, high)
Clamp(value, low, high) == IF value < low THEN low ELSE IF value > high THEN high ELSE value

\* the editing state as one value
Editor ==
  [lines |-> lines_, dirty |-> dirty_, cursor_line |-> cursor_line_,
   cursor_column |-> cursor_column_, mode |-> mode_, running |-> running_,
   status_message |-> status_message_, status_severity |-> status_severity_,
   command_buffer |-> command_buffer_, pending |-> pending_normal_command_,
   prefix_count |-> prefix_count_, motion_count |-> motion_count_,
   has_prefix_count |-> has_prefix_count_, has_motion_count |-> has_motion_count_,
   yank_buffer |-> yank_buffer_, yank_linewise |-> yank_linewise_,
   has_last_find |-> has_last_find_, last_find_target |-> last_find_target_,
   last_find_backward |-> last_find_backward_, last_find_till |-> last_find_till_,
   path |-> "none", command_id |-> ""]

\* Buffer::GetLine(line_index) const
GetLine(e, line_index) == e.lines[line_index + 1]

\* the non-const Buffer::GetLine(line_index), which sets dirty_
TouchLine(e) == [e EXCEPT !.dirty = TRUE]

\* Buffer::InsertChar(line, column, value)
InsertChar(e, line, column, value) ==
  IF line >= Len(e.lines) \/ column > Len(GetLine(e, line)) THEN e
  ELSE [e EXCEPT !.lines[line + 1] = InsertAt(@, column + 1, value), !.dirty = TRUE]

\* Buffer::DeleteChar(line, column): the character before the column
DeleteChar(e, line, column) ==
  IF line >= Len(e.lines) \/ column = 0 \/ column > Len(GetLine(e, line)) THEN e
  ELSE [e EXCEPT !.lines[line + 1] = RemoveAt(@, column), !.dirty = TRUE]

\* Buffer::InsertLine(line_index, line)
InsertLine(e, line_index, line) ==
  IF line_index > Len(e.lines) THEN e
  ELSE [e EXCEPT !.lines = InsertAt(@, line_index + 1, line), !.dirty = TRUE]

\* a variant of Buffer::DeleteLine that leaves the buffer without a line
DeleteLine_ToEmpty(e, line_index) ==
  IF line_index >= Len(e.lines) THEN e
  ELSE [e EXCEPT !.lines = RemoveAt(@, line_index + 1), !.dirty = TRUE]

\* Buffer::DeleteLine(line_index): an empty line takes the place of the last one
DeleteLine(e, line_index) ==
  IF line_index >= Len(e.lines) THEN e
  ELSE LET erased == RemoveAt(e.lines, line_index + 1) IN
       [e EXCEPT !.lines = IF erased = << >> THEN <<EmptyLine>> ELSE erased,
                 !.dirty = TRUE]

\* a variant of EditorState::ClampCursor that leaves the column as it is
ClampCursor_LineOnly(e) ==
  IF Len(e.lines) = 0 THEN [e EXCEPT !.cursor_line = 0, !.cursor_column = 0]
  ELSE [e EXCEPT !.cursor_line = Min(e.cursor_line, Len(e.lines) - 1)]

\* EditorState::ClampCursor; buffer_.GetLine is the non-const overload
ClampCursor(e) ==
  IF Len(e.lines) = 0 THEN [e EXCEPT !.cursor_line = 0, !.cursor_column = 0]
  ELSE LET line == IF e.cursor_line >= Len(e.lines) THEN Len(e.lines) - 1
                   ELSE e.cursor_line IN
       [e EXCEPT !.cursor_line = line,
                 !.cursor_column = Min(e.cursor_column, Len(GetLine(e, line))),
                 !.dirty = TRUE]

\* EditorState::SetCursor(line, column)
SetCursor(e, line, column) ==
  ClampCursor([e EXCEPT !.cursor_line = line, !.cursor_column = column])

\* EditorState::MoveCursorLine(delta)
MoveCursorLine(e, delta) ==
  IF Len(e.lines) = 0 THEN [e EXCEPT !.cursor_line = 0, !.cursor_column = 0]
  ELSE ClampCursor([e EXCEPT !.cursor_line = Clamp(e.cursor_line + delta, 0, Len(e.lines) - 1)])

\* EditorState::MoveCursorColumn(delta); buffer_.GetLine is the non-const overload
MoveCursorColumn(e, delta) ==
  LET kMaxColumn == Len(GetLine(e, e.cursor_line)) IN
  ClampCursor([e EXCEPT !.cursor_column = Clamp(e.cursor_column + delta, 0, kMaxColumn),
                        !.dirty = TRUE])

SetMode(e, mode) == [e EXCEPT !.mode = mode]
SetStatus(e, message, severity) ==
  [e EXCEPT !.status_message = message, !.status_severity = severity]
ClearStatus(e) == SetStatus(e, "", "kNone")

\* ToSignedDelta(count)
ToSignedDelta(count) == IF count > IntMax THEN IntMax ELSE count

\* AppendCountDigit(current, digit)
AppendCountDigit(current, digit) == Min(current * 10 + digit, kMaxCountValue)

\* ModeController::ResetCount
ResetCount(e) ==
  [e EXCEPT !.prefix_count = 0, !.motion_count = 0,
            !.has_prefix_count = FALSE, !.has_motion_count = FALSE]

\* a variant of ConsumeCountOr that lets the motion count stand alone
CountOr_MotionAlone(e, fallback) ==
  IF e.has_motion_count /\ e.motion_count > 0 THEN e.motion_count
  ELSE IF e.has_prefix_count /\ e.prefix_count > 0 THEN e.prefix_count
  ELSE fallback

\* the value ModeController::ConsumeCountOr(fallback) returns; it ends in ResetCount
CountOr(e, fallback) ==
  LET kHasPrefix == e.has_prefix_count /\ e.prefix_count > 0
      kHasMotion == e.has_motion_count /\ e.motion_count > 0
  IN IF kHasMotion
     THEN IF kHasPrefix THEN Min(e.prefix_count * e.motion_count, kMaxCountValue)
          ELSE e.motion_count
     ELSE IF kHasPrefix THEN e.prefix_count ELSE fallback

\* the characters of a std::string as one string
RECURSIVE Concat(_)
Concat(characters) ==
  IF characters = << >> THEN "" ELSE Head(characters) \o Concat(Tail(characters))

\* FormatPendingStatus(pending_command, prefix_count, ...)
FormatPendingStatus(e) ==
  (IF e.has_prefix_count /\ e.prefix_count > 0 THEN ToString(e.prefix_count) ELSE "")
    \o Concat(e.pending)
    \o (IF e.has_motion_count /\ e.motion_count > 0 THEN ToString(e.motion_count) ELSE "")

\* ModeController::DeleteLineRange(start_line, line_count): the editing state
\* after it, with the number of deleted lines in `deleted`
\* (on a buffer of one empty line every further turn of the loop deletes that
\* line and puts it back: the turns that are left are counted at once)
RECURSIVE DeleteLines(_, _, _, _)
DeleteLines(e, start_line, line_count, deleted) ==
  IF line_count = 0 \/ start_line >= Len(e.lines) THEN [state |-> e, deleted |-> deleted]
  ELSE IF e.lines = <<EmptyLine>> /\ e.dirty
       THEN [state |-> DeleteLine(e, start_line), deleted |-> deleted + line_count]
  ELSE DeleteLines(DeleteLine(e, start_line), start_line, line_count - 1, deleted + 1)

DeleteLineRange(e, start_line, line_count) ==
  IF line_count = 0 \/ Len(e.lines) = 0 \/ start_line >= Len(e.lines)
  THEN [state |-> e, deleted |-> 0]
  ELSE DeleteLines(e, start_line, line_count, 0)

\* ModeController::DeleteCharacterRange(start_line, start_column, end_line,
\* end_column): the editing state after it, with what it returns in `ok`
RECURSIVE DeleteLinesAfter(_, _, _)
DeleteLinesAfter(e, start_line, kLinesToDelete) ==
  IF kLinesToDelete = 0 THEN e
  ELSE DeleteLinesAfter(DeleteLine(e, start_line + 1), start_line, kLinesToDelete - 1)

DeleteCharacterRange(e, start_line, start_column, end_line, end_column) ==
  IF \/ Len(e.lines) = 0
     \/ start_line > end_line
     \/ start_line = end_line /\ start_column >= end_column
  THEN [state |-> e, ok |-> FALSE]
  ELSE LET first == Min(start_line, Len(e.lines) - 1)
           last == Min(end_line, Len(e.lines) - 1)
           from == Min(start_column, Len(GetLine(e, first)))
           to == Min(end_column, Len(GetLine(e, last)))
       IN IF first = last
          THEN IF from >= to THEN [state |-> e, ok |-> FALSE]
               ELSE [state |-> [e EXCEPT !.lines[first + 1] =
                                           SubSeq(@, 1, from) \o SubSeq(@, to + 1, Len(@)),
                                         !.dirty = TRUE],
                     ok |-> TRUE]
          ELSE LET prefix == SubSeq(GetLine(e, first), 1, from)
                   suffix == SubSeq(GetLine(e, last), to + 1, Len(GetLine(e, last)))
                   shorter == DeleteLinesAfter(e, first, last - first)
               IN [state |-> [shorter EXCEPT !.lines[first + 1] = prefix \o suffix,
                                             !.dirty = TRUE],
                   ok |-> TRUE]

\* KeyEvent{code, value}
CharacterKey(value) == [code |-> "kCharacter", value |-> value]
SpecialKey(code) == [code |-> code, value |-> ""]

\* ModeController::MakeGesture(event)
MakeGesture(event) ==
  CASE event.code = "kCharacter" -> event.value
    [] event.code = "kEnter" -> "<Enter>"
    [] event.code = "kEscape" -> "<Esc>"
    [] event.code = "kBackspace" -> "<Backspace>"
    [] event.code = "kArrowUp" -> "<Up>"
    [] event.code = "kArrowDown" -> "<Down>"
    [] event.code = "kArrowLeft" -> "<Left>"
    [] event.code = "kArrowRight" -> "<Right>"

\* ModeController::ToKeybindingMode(mode)
ToKeybindingMode(mode) ==
  CASE mode = "kNormal" -> "kNormal"
    [] mode = "kInsert" -> "kInsert"
    [] mode = "kCommandLine" -> "kCommand"
    [] mode = "kVisual" -> "kVisual"

\* Registry::FindCommand(id, include_shadow = true)
FindCommandWithShadow(id) ==
  IF id \in DOMAIN commands_ THEN commands_[id]
  ELSE IF id \in DOMAIN command_shadow_ /\ command_shadow_[id] # << >>
       THEN command_shadow_[id][Len(command_shadow_[id])]
       ELSE NoRecord

\* callable.native_callback(invocation) of a contribution: what the callback
\* does to the editing state is the contribution's business, the model keeps
\* that it ran
NativeCallback(e, command_id) == [e EXCEPT !.path = "binding", !.command_id = command_id]

\* ModeController::InvokeCommand(command_id, args): the editing state after
\* it, with what it returns in `ok`
InvokeCommand(e, command_id) ==
  LET command == FindCommandWithShadow(command_id) IN
  IF command = NoRecord
  THEN [state |-> SetStatus(e, "Command not found", "kWarning"), ok |-> FALSE]
  ELSE IF command.callable.native_callback
       THEN [state |-> NativeCallback(e, command_id), ok |-> TRUE]
       ELSE [state |-> SetStatus(e, "Command not executable", "kWarning"), ok |-> FALSE]

\* ModeController::ExecuteRegisteredBinding(event)
ExecuteRegisteredBinding(e, event) ==
  IF e.pending # << >> THEN [state |-> e, ok |-> FALSE]
  ELSE IF MakeGesture(event) = "" THEN [state |-> e, ok |-> FALSE]
  ELSE LET exact == ResolveKeybinding(ToKeybindingMode(e.mode), MakeGesture(event))
           binding == IF exact # NoRecord THEN exact
                      ELSE ResolveKeybinding("kAny", MakeGesture(event))
       IN IF binding = NoRecord THEN [state |-> e, ok |-> FALSE]
          ELSE InvokeCommand(e, binding.descriptor.command_id)

\* "Deleted <n> line", with an s unless n is 1
DeletedLinesStatus(e, kDeleted) ==
  SetStatus(e, "Deleted " \o ToString(kDeleted) \o " line" \o (IF kDeleted # 1 THEN "s" ELSE ""),
            "kInfo")

ClearPending(e) == [e EXCEPT !.pending = << >>]

\* a variant of MoveLines that moves one line whatever the count
MoveLines_OneLine(e, sign) ==
  ClearStatus(MoveCursorLine(ResetCount(ClearPending(e)), sign))

\* pending_normal_command_.clear(); ConsumeCountOr(1); MoveCursorLine(delta);
\* ClearStatus(): the arrows up and down, j and k
MoveLines(e, sign) ==
  ClearStatus(MoveCursorLine(ResetCount(ClearPending(e)), sign * ToSignedDelta(CountOr(e, 1))))

\* the same with MoveCursorColumn: the arrows left and right, h and l
MoveColumns(e, sign) ==
  ClearStatus(MoveCursorColumn(ResetCount(ClearPending(e)), sign * ToSignedDelta(CountOr(e, 1))))

\* d then arrow down: the cursor line and the lines below it
DeleteDown(e) ==
  LET kLines == Max(1, CountOr(e, 2))
      range == DeleteLineRange(ResetCount(ClearPending(e)), e.cursor_line, kLines)
  IN IF range.deleted = 0 THEN SetStatus(range.state, "Delete failed", "kWarning")
     ELSE DeletedLinesStatus(MoveCursorLine(range.state, 0), range.deleted)

\* d then arrow up: the cursor line and the lines above it
DeleteUp(e) ==
  LET kLines == Max(1, CountOr(e, 2))
      kCurrent == e.cursor_line
      kStart == IF kLines > kCurrent + 1 THEN 0 ELSE kCurrent + 1 - kLines
      range == DeleteLineRange(ResetCount(ClearPending(e)), kStart, kLines)
  IN IF range.deleted = 0 THEN SetStatus(range.state, "Delete failed", "kWarning")
     ELSE DeletedLinesStatus(MoveCursorLine(SetCursor(range.state, kStart, 0), 0),
                             range.deleted)

\* d0: from the start of the line to the cursor
DeleteToLineStart(e) ==
  LET kLine == e.cursor_line
      kColumn == Min(e.cursor_column, Len(GetLine(e, kLine)))
      cleared == ResetCount(ClearPending(e))
      range == DeleteCharacterRange(cleared, kLine, 0, kLine, kColumn)
  IN IF kColumn = 0 THEN SetStatus(cleared, "Already at line start", "kWarning")
     ELSE IF range.ok
          THEN SetStatus(MoveCursorLine(SetCursor(range.state, kLine, 0), 0),
                         "Deleted to line start", "kInfo")
          ELSE SetStatus(range.state, "Delete failed", "kWarning")

\* a digit of a count: of the prefix count with nothing pending, else of the
\* motion count
CountDigit(e, kDigit) ==
  IF e.pending = << >>
  THEN LET counted == [e EXCEPT !.has_prefix_count = TRUE,
                                !.prefix_count = AppendCountDigit(@, kDigit)]
       IN SetStatus(counted, FormatPendingStatus(counted), "kInfo")
  ELSE LET counted == [e EXCEPT !.has_motion_count = TRUE,
                                !.motion_count = AppendCountDigit(@, kDigit)]
       IN SetStatus(counted, FormatPendingStatus(counted), "kInfo")

InsertStatus(e) == SetStatus(SetMode(e, "kInsert"), "-- INSERT --", "kInfo")

\* ModeController::InsertCharacter(value)
InsertCharacter(e, value) ==
  LET inserted == InsertChar(e, e.cursor_line, e.cursor_column, value) IN
  IF inserted = e THEN e ELSE SetCursor(inserted, e.cursor_line, e.cursor_column + 1)

\* ModeController::InsertNewline: the line is cut at the cursor, its tail is
\* the next line
InsertNewline(e) ==
  LET kLine == e.cursor_line
      kColumn == e.cursor_column
      current == GetLine(e, kLine)
      tail == SubSeq(current, kColumn + 1, Len(current))
      cut == [TouchLine(e) EXCEPT !.lines[kLine + 1] = SubSeq(current, 1, kColumn)]
  IN SetCursor(InsertLine(cut, kLine + 1, tail), kLine + 1, 0)

\* ModeController::HandleBackspace: the character before the cursor, or the
\* line break before the line
HandleBackspace(e) ==
  LET kLine == e.cursor_line
      kColumn == e.cursor_column
  IN IF kColumn > 0
     THEN LET deleted == DeleteChar(e, kLine, kColumn) IN
          IF deleted = e THEN e ELSE SetCursor(deleted, kLine, kColumn - 1)
     ELSE IF kLine = 0 THEN e
     ELSE LET joined == [DeleteLine(TouchLine(e), kLine)
                           EXCEPT !.lines[kLine] = GetLine(e, kLine - 1) \o GetLine(e, kLine)]
          IN SetCursor(joined, kLine - 1, Len(GetLine(e, kLine - 1)))

\* x: the characters from the cursor on
DeleteCharacters(e) ==
  LET kCount == CountOr(e, 1)
      kLine == e.cursor_line
      kStartColumn == e.cursor_column
      range == DeleteCharacterRange(ResetCount(ClearPending(e)), kLine, kStartColumn,
                                    kLine, kStartColumn + kCount)
  IN IF range.ok
     THEN SetStatus(MoveCursorLine(SetCursor(range.state, kLine, kStartColumn), 0),
                    "Deleted characters", "kInfo")
     ELSE SetStatus(range.state, "Delete failed", "kWarning")

\* dd: the cursor line and the lines below it
DeleteCursorLines(e) ==
  LET range == DeleteLineRange(ResetCount(e), e.cursor_line, CountOr(e, 1)) IN
  IF range.deleted = 0 THEN SetStatus(range.state, "Delete failed", "kWarning")
  ELSE DeletedLinesStatus(MoveCursorLine(range.state, 0), range.deleted)

\* G: to the line of the prefix count, to the last line without one
GoToLine(e) ==
  LET kTarget == IF e.has_prefix_count THEN Min(e.prefix_count, Len(e.lines))
                 ELSE Len(e.lines)
      cleared == ResetCount(e)
  IN ClearStatus(MoveCursorLine(IF kTarget = 0 THEN SetCursor(cleared, 0, 0)
                                ELSE SetCursor(cleared, kTarget - 1, 0), 0))

\* std::isspace and std::isalnum on the characters of the model
Letters ==
  {"a", "b", "c", "d", "e", "f", "g", "h", "i", "j", "k", "l", "m", "n", "o", "p", "q",
   "r", "s", "t", "u", "v", "w", "x", "y", "z"}
IsSpace(ch) == ch = " "
\* IsWordChar(ch)
IsWordChar(ch) == ch \in Letters \cup {"0", "1", "2", "3", "4", "5", "6", "7", "8", "9", "_"}

\* TextPosition{line, column}
TextPosition(line, column) == [line |-> line, column |-> column]

\* ClampPosition(buffer, position)
ClampPosition(e, position) ==
  IF Len(e.lines) = 0 THEN position
  ELSE LET line == Min(position.line, Len(e.lines) - 1) IN
       TextPosition(line, Min(position.column, Len(GetLine(e, line))))

\* the inner loop of NextWordStart and NextBigWordStart: the column after the
\* run of characters of one kind that begins at the column
RECURSIVE SegmentEnd(_, _, _, _)
SegmentEnd(line, column, kInitialIsWord, big) ==
  IF column >= Len(line) \/ IsSpace(line[column + 1]) THEN column
  ELSE IF ~big /\ IsWordChar(line[column + 1]) # kInitialIsWord THEN column
  ELSE SegmentEnd(line, column + 1, kInitialIsWord, big)

\* the outer loop of NextWordStart and NextBigWordStart
RECURSIVE WordStartLoop(_, _, _, _)
WordStartLoop(e, position, consumed_segment, big) ==
  IF position.line >= Len(e.lines)
  THEN TextPosition(Len(e.lines) - 1, Len(GetLine(e, Len(e.lines) - 1)))
  ELSE LET line == GetLine(e, position.line) IN
       IF position.column >= Len(line)
       THEN IF position.line + 1 >= Len(e.lines) THEN TextPosition(position.line, Len(line))
            ELSE WordStartLoop(e, TextPosition(position.line + 1, 0), FALSE, big)
       ELSE IF IsSpace(line[position.column + 1])
       THEN WordStartLoop(e, TextPosition(position.line, position.column + 1), FALSE, big)
       ELSE IF ~consumed_segment
       THEN WordStartLoop(e,
              TextPosition(position.line,
                           SegmentEnd(line, position.column,
                                      IsWordChar(line[position.column + 1]), big)),
              TRUE, big)
       ELSE position

\* NextWordStart(buffer, position)
NextWordStart(e, position) ==
  IF Len(e.lines) = 0 THEN position
  ELSE WordStartLoop(e, ClampPosition(e, position), FALSE, FALSE)

\* NextBigWordStart(buffer, position)
NextBigWordStart(e, position) ==
  IF Len(e.lines) = 0 THEN position
  ELSE WordStartLoop(e, ClampPosition(e, position), FALSE, TRUE)

\* the loop of WordEndInclusive and BigWordEndInclusive
RECURSIVE WordEndLoop(_, _, _)
WordEndLoop(e, position, big) ==
  IF position.line >= Len(e.lines)
  THEN TextPosition(Len(e.lines) - 1, Len(GetLine(e, Len(e.lines) - 1)))
  ELSE LET line == GetLine(e, position.line) IN
       IF position.column >= Len(line)
       THEN IF position.line + 1 >= Len(e.lines) THEN TextPosition(position.line, Len(line))
            ELSE WordEndLoop(e, TextPosition(position.line + 1, 0), big)
       ELSE IF IsSpace(line[position.column + 1])
       THEN WordEndLoop(e, TextPosition(position.line, position.column + 1), big)
       ELSE LET probe == SegmentEnd(line, position.column,
                                    IsWordChar(line[position.column + 1]), big)
            IN IF probe = position.column THEN position
               ELSE TextPosition(position.line, probe - 1)

\* WordEndInclusive(buffer, position)
WordEndInclusive(e, position) ==
  IF Len(e.lines) = 0 THEN position ELSE WordEndLoop(e, ClampPosition(e, position), FALSE)

\* BigWordEndInclusive(buffer, position)
BigWordEndInclusive(e, position) ==
  IF Len(e.lines) = 0 THEN position ELSE WordEndLoop(e, ClampPosition(e, position), TRUE)

\* the inner loop of PreviousWordStart and PreviousBigWordStart: the first
\* column of the run of characters of one kind that holds the column
RECURSIVE SegmentStart(_, _, _, _)
SegmentStart(line, column, kCurrentIsWord, big) ==
  IF column = 0 \/ IsSpace(line[column]) THEN column
  ELSE IF ~big /\ IsWordChar(line[column]) # kCurrentIsWord THEN column
  ELSE SegmentStart(line, column - 1, kCurrentIsWord, big)

\* the loop of PreviousWordStart and PreviousBigWordStart; retreat_line goes
\* to the end of the line above
RECURSIVE PreviousWordLoop(_, _, _)
PreviousWordLoop(e, position, big) ==
  LET line == GetLine(e, position.line)
      retreated == TextPosition(position.line - 1, Len(GetLine(e, position.line - 1)))
  IN IF Len(line) = 0
     THEN IF position.line = 0 THEN TextPosition(0, 0) ELSE PreviousWordLoop(e, retreated, big)
     ELSE LET column == IF position.column >= Len(line) THEN Len(line) - 1
                        ELSE position.column
          IN IF IsSpace(line[column + 1])
             THEN IF column = 0
                  THEN IF position.line = 0 THEN TextPosition(0, 0)
                       ELSE PreviousWordLoop(e, retreated, big)
                  ELSE PreviousWordLoop(e, TextPosition(position.line, column - 1), big)
             ELSE TextPosition(position.line,
                               SegmentStart(line, column, IsWordChar(line[column + 1]), big))

PreviousWordStartOf(e, position, big) ==
  IF Len(e.lines) = 0 THEN position
  ELSE LET clamped == ClampPosition(e, position) IN
       IF clamped.column > 0
       THEN PreviousWordLoop(e, TextPosition(clamped.line, clamped.column - 1), big)
       ELSE IF clamped.line = 0 THEN TextPosition(0, 0)
       ELSE PreviousWordLoop(e, TextPosition(clamped.line - 1,
                                             Len(GetLine(e, clamped.line - 1))), big)

\* PreviousWordStart(buffer, position)
PreviousWordStart(e, position) == PreviousWordStartOf(e, position, FALSE)
\* PreviousBigWordStart(buffer, position)
PreviousBigWordStart(e, position) == PreviousWordStartOf(e, position, TRUE)

\* FirstNonBlankColumn(line)
FirstNonBlankColumn(line) ==
  LET columns == {i \in 1..Len(line) : ~IsSpace(line[i])} IN
  IF columns = {} THEN 0 ELSE (CHOOSE i \in columns : \A j \in columns : i <= j) - 1

\* FirstNonBlankPosition(buffer, line)
FirstNonBlankPosition(e, line) ==
  IF Len(e.lines) = 0 THEN TextPosition(0, 0)
  ELSE TextPosition(Min(line, Len(e.lines) - 1),
                    FirstNonBlankColumn(GetLine(e, Min(line, Len(e.lines) - 1))))

\* ModeController::CopyLineRange(start_line, line_count): the editing state
\* after it, with what it returns in `ok`
CopyLineRange(e, start_line, line_count) ==
  IF Len(e.lines) = 0 \/ start_line >= Len(e.lines) \/ line_count = 0
  THEN [state |-> e, ok |-> FALSE]
  ELSE LET kAvailable == Len(e.lines) - start_line
           count == Min(line_count, kAvailable)
       IN IF count = 0 THEN [state |-> e, ok |-> FALSE]
          ELSE [state |-> [e EXCEPT !.yank_buffer =
                                       SubSeq(e.lines, start_line + 1, start_line + count),
                                    !.yank_linewise = TRUE],
                ok |-> TRUE]

\* ModeController::CopyCharacterRange(start_line, start_column, end_line,
\* end_column)
CopyCharacterRange(e, start_line, start_column, end_line, end_column) ==
  IF \/ Len(e.lines) = 0
     \/ start_line > end_line
     \/ start_line = end_line /\ start_column >= end_column
  THEN [state |-> e, ok |-> FALSE]
  ELSE LET first == Min(start_line, Len(e.lines) - 1)
           last == Min(end_line, Len(e.lines) - 1)
           start_text == GetLine(e, first)
           end_text == GetLine(e, last)
           from == Min(start_column, Len(start_text))
           to == Min(end_column, Len(end_text))
       IN IF first = last
          THEN IF from >= to THEN [state |-> e, ok |-> FALSE]
               ELSE [state |-> [e EXCEPT !.yank_buffer = <<SubSeq(start_text, from + 1, to)>>,
                                         !.yank_linewise = FALSE],
                     ok |-> TRUE]
          ELSE [state |-> [e EXCEPT !.yank_buffer =
                                       <<SubSeq(start_text, from + 1, Len(start_text))>>
                                         \o SubSeq(e.lines, first + 2, last)
                                         \o <<SubSeq(end_text, 1, to)>>,
                                    !.yank_linewise = FALSE],
                ok |-> TRUE]

\* buffer.InsertLine(line_index + i, lines[i]) for every i
RECURSIVE InsertLines(_, _, _)
InsertLines(e, line_index, lines) ==
  IF lines = << >> THEN e
  ELSE InsertLines(InsertLine(e, line_index, Head(lines)), line_index + 1, Tail(lines))

\* a variant of PasteAfterCursor that empties the yank buffer it has pasted
PasteAfterCursor_Consuming(e) ==
  IF e.yank_buffer = << >>
  THEN [state |-> SetStatus(e, "Nothing to paste", "kWarning"), ok |-> FALSE]
  ELSE LET inserted == InsertLines(e, e.cursor_line + 1, e.yank_buffer) IN
       [state |-> [MoveCursorLine(SetCursor(inserted, e.cursor_line + 1, 0), 0)
                     EXCEPT !.yank_buffer = << >>],
        ok |-> TRUE]

\* ModeController::PasteAfterCursor: the editing state after it, with what it
\* returns in `ok`; Buffer::InsertLine does not fail at these indices
PasteAfterCursor(e) ==
  IF e.yank_buffer = << >>
  THEN [state |-> SetStatus(e, "Nothing to paste", "kWarning"), ok |-> FALSE]
  ELSE LET buffer == IF Len(e.lines) = 0 THEN InsertLine(e, 0, EmptyLine) ELSE e
           cursor == ClampPosition(buffer, TextPosition(e.cursor_line, e.cursor_column))
       IN IF e.yank_linewise
          THEN LET kInsertLine == cursor.line + 1
                   inserted == TouchLine(InsertLines(buffer, kInsertLine, e.yank_buffer))
                   kFirstInserted == Min(kInsertLine, Len(inserted.lines) - 1)
                   kColumn == FirstNonBlankColumn(GetLine(inserted, kFirstInserted))
               IN [state |-> MoveCursorLine(SetCursor(inserted, kFirstInserted, kColumn), 0),
                   ok |-> TRUE]
          ELSE LET line == cursor.line
                   current == GetLine(buffer, line)
                   kInsertColumn == Min(cursor.column + 1, Len(current))
                   prefix == SubSeq(current, 1, kInsertColumn)
                   suffix == SubSeq(current, kInsertColumn + 1, Len(current))
                   front == e.yank_buffer[1]
                   back == e.yank_buffer[Len(e.yank_buffer)]
               IN IF Len(e.yank_buffer) = 1
                  THEN LET joined == [TouchLine(buffer) EXCEPT
                                        !.lines[line + 1] = prefix \o front \o suffix]
                           kCursorColumn == IF Len(front) = 0 THEN Len(prefix)
                                            ELSE Len(prefix) + Len(front) - 1
                       IN [state |-> MoveCursorLine(SetCursor(joined, line, kCursorColumn), 0),
                           ok |-> TRUE]
                  ELSE LET begun == [TouchLine(buffer) EXCEPT !.lines[line + 1] = prefix \o front]
                           inserted == InsertLines(begun, line + 1, Tail(e.yank_buffer))
                           kLastInsertedLine == line + Len(e.yank_buffer) - 1
                           ended == [inserted EXCEPT !.lines[kLastInsertedLine + 1] = @ \o suffix]
                           kCursorColumn == IF back = << >> THEN 0 ELSE Len(back) - 1
                       IN [state |-> MoveCursorLine(
                                       SetCursor(ended, kLastInsertedLine, kCursorColumn), 0),
                           ok |-> TRUE]

\* the columns of the line that hold the target
Matches(line, target) == {i \in 0..(Len(line) - 1) : line[i + 1] = target}

\* the loop `while (count > 0)` of ApplyFindCommand: the matched column of
\* `result` after it, -1 when the command returned "Target not found";
\* `matched` is the matched column of `result`, -1 while it has no value, and
\* a turn of the loop that finds nothing leaves the `result` of the turn
\* before in place
RECURSIVE FindLoop(_, _, _, _, _, _)
FindLoop(line, target, kBackward, count, position, matched) ==
  IF count = 0 THEN matched
  ELSE IF kBackward /\ position = 0 THEN -1
  ELSE IF ~kBackward /\ position + 1 >= Len(line) THEN -1
  ELSE LET scanned == IF kBackward
                      THEN {i \in Matches(line, target) : i <= position - 1}
                      ELSE {i \in Matches(line, target) : i >= position + 1}
           found == IF scanned = {} THEN matched
                    ELSE IF kBackward THEN CHOOSE i \in scanned : \A j \in scanned : i >= j
                    ELSE CHOOSE i \in scanned : \A j \in scanned : i <= j
       IN IF found = -1 THEN -1
          ELSE FindLoop(line, target, kBackward, count - 1, found, found)

\* ModeController::ApplyFindCommand(command, FindCommandAction::kMove, target):
\* the editing state after it, with what it returns in `ok`
ApplyFindCommand(e, command, target) ==
  IF Len(e.lines) = 0 THEN [state |-> e, ok |-> FALSE]
  ELSE LET kCount == CountOr(e, 1)
           counted == ResetCount(e)
           kLine == e.cursor_line
           line == GetLine(e, kLine)
           kBackward == command \in {"F", "T"}
           kTill == command \in {"t", "T"}
           matched == FindLoop(line, target, kBackward, kCount, e.cursor_column, -1)
           kCursorColumn == IF ~kTill THEN matched
                            ELSE IF kBackward THEN matched + 1 ELSE matched - 1
       IN IF line = << >>
          THEN [state |-> SetStatus(counted, "Line empty", "kWarning"), ok |-> FALSE]
          ELSE IF matched = -1
          THEN [state |-> ResetCount(SetStatus(counted, "Target not found", "kWarning")),
                ok |-> FALSE]
          ELSE [state |-> [MoveCursorLine(SetCursor(counted, kLine, kCursorColumn), 0)
                             EXCEPT !.has_last_find = TRUE,
                                    !.last_find_target = target,
                                    !.last_find_backward = kBackward,
                                    !.last_find_till = kTill],
                ok |-> TRUE]

\* CommandFromState(backward, till)
CommandFromState(backward, till) ==
  IF ~backward /\ ~till THEN "f"
  ELSE IF ~backward /\ till THEN "t"
  ELSE IF backward /\ ~till THEN "F"
  ELSE "T"

\* ModeController::ApplyRepeatFind(reverse_direction, FindCommandAction::kMove)
ApplyRepeatFind(e, reverse_direction) ==
  IF ~e.has_last_find
  THEN [state |-> SetStatus(e, "No previous find", "kWarning"), ok |-> FALSE]
  ELSE LET backward == IF reverse_direction THEN ~e.last_find_backward
                       ELSE e.last_find_backward
       IN ApplyFindCommand(e, CommandFromState(backward, e.last_find_till),
                           e.last_find_target)

\* the loop `for (i < kCount) end = advance_word(end)` of HandleDeleteOperator
RECURSIVE AdvanceWords(_, _, _, _)
AdvanceWords(e, motion, position, kCount) ==
  IF kCount = 0 THEN position
  ELSE AdvanceWords(e, motion,
         CASE motion = "w" -> NextWordStart(e, position)
           [] motion = "W" -> NextBigWordStart(e, position)
           [] motion = "e" -> WordEndInclusive(e, position)
           [] motion = "E" -> BigWordEndInclusive(e, position)
           [] motion = "b" -> PreviousWordStart(e, position)
           [] motion = "B" -> PreviousBigWordStart(e, position),
         kCount - 1)

\* a variant of HandleDeleteOperator that leaves the cursor where the motion
\* went when the delete fails
HandleDeleteOperator_MovesOnFailure(e, motion) ==
  LET reset == ResetCount(e)
      kCount == CountOr(reset, 1)
  IN IF motion = "d"
     THEN LET range == DeleteLineRange(reset, reset.cursor_line, kCount) IN
          IF range.deleted = 0 THEN [state |-> range.state, ok |-> FALSE]
          ELSE [state |-> DeletedLinesStatus(MoveCursorLine(range.state, 0), range.deleted),
                ok |-> TRUE]
     ELSE IF motion \in {"w", "W", "b", "B", "e", "E"}
     THEN LET start == TextPosition(reset.cursor_line, reset.cursor_column)
              advanced == AdvanceWords(reset, motion, start, kCount)
              end == IF motion \in {"e", "E"}
                     THEN TextPosition(advanced.line, advanced.column + 1)
                     ELSE advanced
              range == DeleteCharacterRange(reset, start.line, start.column,
                                            end.line, end.column)
          IN IF ~range.ok
             THEN [state |-> MoveCursorLine(SetCursor(range.state, end.line, end.column), 0),
                   ok |-> FALSE]
             ELSE [state |-> MoveCursorLine(SetCursor(range.state, start.line, start.column), 0),
                   ok |-> TRUE]
     ELSE [state |-> reset, ok |-> FALSE]


\* ModeController::HandleDeleteOperator(motion): the editing state after it,
\* with what it returns in `ok`; ResetCount comes before ConsumeCountOr(1)
HandleDeleteOperator(e, motion) ==
  LET reset == ResetCount(e)
      kCount == CountOr(reset, 1)
  IN IF motion = "d"
     THEN LET range == DeleteLineRange(reset, reset.cursor_line, kCount) IN
          IF range.deleted = 0 THEN [state |-> range.state, ok |-> FALSE]
          ELSE [state |-> DeletedLinesStatus(MoveCursorLine(range.state, 0), range.deleted),
                ok |-> TRUE]
     ELSE IF motion \in {"w", "W", "b", "B", "e", "E"}
     THEN LET start == TextPosition(reset.cursor_line, reset.cursor_column)
              advanced == AdvanceWords(reset, motion, start, kCount)
              end == IF motion \in {"e", "E"}
                     THEN TextPosition(advanced.line, advanced.column + 1)
                     ELSE advanced
              range == DeleteCharacterRange(reset, start.line, start.column,
                                            end.line, end.column)
          IN IF ~range.ok THEN [state |-> range.state, ok |-> FALSE]
             ELSE [state |-> MoveCursorLine(SetCursor(range.state, start.line, start.column), 0),
                   ok |-> TRUE]
     ELSE [state |-> reset, ok |-> FALSE]

\* ModeController::HandleYankOperator(motion)
HandleYankOperator(e, motion) ==
  LET reset == ResetCount(e) IN
  IF motion = "y" THEN CopyLineRange(reset, reset.cursor_line, CountOr(reset, 1))
  ELSE [state |-> reset, ok |-> FALSE]

\* y0: from the start of the line to the cursor
YankToLineStart(e) ==
  LET kLine == e.cursor_line
      kColumn == Min(e.cursor_column, Len(GetLine(e, kLine)))
      cleared == ResetCount(ClearPending(e))
      range == CopyCharacterRange(cleared, kLine, 0, kLine, kColumn)
  IN IF kColumn = 0 THEN SetStatus(cleared, "Nothing to yank", "kWarning")
     ELSE IF range.ok THEN SetStatus(range.state, "Yanked to line start", "kInfo")
     ELSE SetStatus(range.state, "Yank failed", "kWarning")

\* p and P
Paste(e) ==
  LET pasted == PasteAfterCursor(ResetCount(e)) IN
  IF pasted.ok THEN pasted.state ELSE SetStatus(pasted.state, "Paste failed", "kWarning")

\* yy: the cursor line and the lines below it
YankCursorLines(e) ==
  LET copied == CopyLineRange(ResetCount(e), e.cursor_line, CountOr(e, 1)) IN
  IF copied.ok THEN SetStatus(copied.state, "Yanked line", "kInfo")
  ELSE SetStatus(copied.state, "Yank failed", "kWarning")

\* HandleNormalMode from `pending_normal_command_.push_back(kValue)` on
CompleteCommand(e, kValue) ==
  LET pushed_back == [e EXCEPT !.pending = Append(@, kValue)]
      shown == SetStatus(pushed_back, FormatPendingStatus(pushed_back), "kInfo")
      kCommand == shown.pending
      cleared == ClearPending(shown)
  IN IF Len(kCommand) = 1 /\ kCommand[1] \in {"d", "c", "y", "f", "F", "t", "T"} THEN shown
     ELSE IF Len(kCommand) = 1 /\ kCommand[1] \in {"p", "P"} THEN Paste(cleared)
     ELSE IF kCommand = <<"u">>
          THEN SetStatus(ResetCount(cleared), "Nothing to undo", "kWarning")
     ELSE IF kCommand = <<"r">>
          THEN SetStatus(ResetCount(cleared), "Nothing to redo", "kWarning")
     ELSE IF kCommand = <<"n">> THEN ApplyRepeatFind(ResetCount(cleared), FALSE).state
     ELSE IF kCommand = <<"N">> THEN ApplyRepeatFind(ResetCount(cleared), TRUE).state
     ELSE IF kCommand = <<"d", "d">> THEN DeleteCursorLines(cleared)
     ELSE IF kCommand = <<"y", "y">> THEN YankCursorLines(cleared)
     ELSE IF kCommand = <<"g", "g">>
          THEN ClearStatus(MoveCursorLine(SetCursor(ResetCount(cleared), 0, 0), 0))
     ELSE IF kCommand = <<"G">> THEN GoToLine(cleared)
     ELSE IF Len(kCommand) = 2 /\ kCommand[1] \in {"f", "F", "t", "T"}
          THEN LET find == ApplyFindCommand(cleared, kCommand[1], kCommand[2]) IN
               IF find.ok THEN find.state
               ELSE SetStatus(find.state, "Find failed", "kWarning")
     ELSE IF Len(kCommand) = 2 /\ kCommand[1] = "d"
          THEN LET operator == HandleDeleteOperator(cleared, kCommand[2]) IN
               IF operator.ok THEN operator.state
               ELSE SetStatus(operator.state, "Delete failed", "kWarning")
     ELSE IF Len(kCommand) = 2 /\ kCommand[1] = "y"
          THEN LET operator == HandleYankOperator(cleared, kCommand[2]) IN
               IF operator.ok THEN operator.state
               ELSE SetStatus(operator.state, "Yank failed", "kWarning")
     ELSE ResetCount(SetStatus(cleared, "Unknown command", "kWarning"))

Digits == {"0", "1", "2", "3", "4", "5", "6", "7", "8", "9"}
DigitValue(character) ==
  CASE character = "0" -> 0 [] character = "1" -> 1 [] character = "2" -> 2
    [] character = "3" -> 3 [] character = "4" -> 4 [] character = "5" -> 5
    [] character = "6" -> 6 [] character = "7" -> 7 [] character = "8" -> 8
    [] character = "9" -> 9

\* HandleNormalMode after ExecuteRegisteredBinding returned false: the
\* built-in handling of the key
HandleBuiltIn(e, event) ==
  IF event.code = "kArrowDown"
  THEN IF e.pending = <<"d">> THEN DeleteDown(e) ELSE MoveLines(e, 1)
  ELSE IF event.code = "kArrowUp"
  THEN IF e.pending = <<"d">> THEN DeleteUp(e) ELSE MoveLines(e, -1)
  ELSE IF event.code = "kArrowLeft" THEN MoveColumns(e, -1)
  ELSE IF event.code = "kArrowRight" THEN MoveColumns(e, 1)
  ELSE IF event.code # "kCharacter" THEN ClearStatus(ResetCount(ClearPending(e)))
  ELSE IF /\ event.value = "0" /\ ~e.has_prefix_count /\ ~e.has_motion_count
          /\ e.pending = <<"d">>
  THEN DeleteToLineStart(e)
  ELSE IF /\ event.value = "0" /\ ~e.has_prefix_count /\ ~e.has_motion_count
          /\ e.pending = <<"y">>
  THEN YankToLineStart(e)
  ELSE IF /\ event.value = "0" /\ ~e.has_prefix_count /\ ~e.has_motion_count
          /\ e.pending = << >>
  THEN ClearStatus(MoveCursorLine(SetCursor(ResetCount(e), e.cursor_line, 0), 0))
  ELSE IF event.value \in Digits THEN CountDigit(e, DigitValue(event.value))
  ELSE CASE event.value = "h" -> MoveColumns(e, -1)
         [] event.value = "j" -> MoveLines(e, 1)
         [] event.value = "k" -> MoveLines(e, -1)
         [] event.value = "l" -> MoveColumns(e, 1)
         [] event.value = "i" -> InsertStatus(ResetCount(ClearPending(e)))
         [] event.value = "a" ->
              InsertStatus(MoveCursorColumn(ResetCount(ClearPending(e)), 1))
         [] event.value = "A" ->
              InsertStatus(MoveCursorLine(
                SetCursor(ResetCount(ClearPending(e)), e.cursor_line,
                          Len(GetLine(e, e.cursor_line))), 0))
         [] event.value = "I" ->
              LET target == FirstNonBlankPosition(e, e.cursor_line) IN
              InsertStatus(MoveCursorLine(
                SetCursor(ResetCount(ClearPending(e)), target.line, target.column), 0))
         [] event.value = "o" -> InsertStatus(InsertNewline(ResetCount(ClearPending(e))))
         [] event.value = "O" ->
              InsertStatus(MoveCursorLine(
                SetCursor(InsertLine(ResetCount(ClearPending(e)), e.cursor_line, EmptyLine),
                          e.cursor_line, 0), 0))
         [] event.value = ":" ->
              SetStatus(SetMode([ResetCount(ClearPending(e)) EXCEPT !.command_buffer = << >>],
                                "kCommandLine"),
                        "-- COMMAND --", "kInfo")
         [] event.value = "x" -> DeleteCharacters(e)
         [] OTHER -> CompleteCommand(e, event.value)

\* ModeController::HandleNormalMode(event)
HandleNormalMode(e, event) ==
  IF event.code = "kEscape"
  THEN [ClearStatus(ResetCount(ClearPending(e))) EXCEPT !.path = "escape"]
  ELSE LET bound == ExecuteRegisteredBinding(e, event) IN
       IF bound.ok THEN bound.state
       ELSE HandleBuiltIn([bound.state EXCEPT !.path = "built-in"], event)

\* ModeController::HandleInsertMode(event); every character of the model is
\* printable
HandleInsertMode(e, event) ==
  CASE event.code = "kEscape" -> ClearStatus(SetMode(e, "kNormal"))
    [] event.code = "kEnter" -> InsertNewline(e)
    [] event.code = "kBackspace" -> HandleBackspace(e)
    [] event.code = "kArrowLeft" -> MoveCursorColumn(e, -1)
    [] event.code = "kArrowRight" -> MoveCursorColumn(e, 1)
    [] event.code = "kArrowUp" -> MoveCursorLine(e, -1)
    [] event.code = "kArrowDown" -> MoveCursorLine(e, 1)
    [] event.code = "kCharacter" -> InsertCharacter(e, event.value)

\* ParseLineArgument(input): the digits of the input as a number, -1 without one
RECURSIVE DigitsValue(_, _)
DigitsValue(characters, value) ==
  IF characters = << >> THEN value
  ELSE DigitsValue(Tail(characters), value * 10 + DigitValue(Head(characters)))

ParseLineArgument(input) ==
  LET digits == SelectSeq(input, LAMBDA character : character \in Digits) IN
  IF digits = << >> \/ DigitsValue(digits, 0) > IntMax THEN -1 ELSE DigitsValue(digits, 0)

\* commands::DeleteCommand::Execute(state, ":d" + argument)
DeleteCommand(e, argument) ==
  LET kParsed == ParseLineArgument(argument)
      target_line == IF kParsed > 0 THEN kParsed - 1 ELSE e.cursor_line
  IN IF target_line >= Len(e.lines) THEN SetStatus(e, "Line out of range", "kWarning")
     ELSE SetStatus(MoveCursorLine(DeleteLine(e, target_line), 0),
                    "Deleted line " \o ToString(target_line + 1), "kInfo")

\* commands::QuitCommand::Execute(state, ":q")
QuitCommand(e) ==
  IF e.dirty
  THEN SetStatus(e, "Unsaved changes. Use :q! to force quit.", "kWarning")
  ELSE [ClearStatus(e) EXCEPT !.running = FALSE]

\* ModeController::ExecuteCommandLine(line) for a line of one command without
\* blanks and separators, and InputHandler::Handle on it: the editing state
\* after it, with what it returns in `ok`
ExecuteCommandLine(e, line) ==
  IF line = <<"q">> THEN [state |-> QuitCommand(e), ok |-> TRUE]
  ELSE IF Head(line) = "d" THEN [state |-> DeleteCommand(e, Tail(line)), ok |-> TRUE]
  ELSE [state |-> e, ok |-> FALSE]

\* a variant of HandleCommandMode whose Escape keeps the command line typed
\* so far
HandleCommandMode_EscapeKeepsLine(e, event) ==
  CASE event.code = "kEscape" -> ClearStatus(SetMode(e, "kNormal"))
    [] event.code = "kEnter" ->
         LET executed == IF e.command_buffer = << >>
                         THEN SetStatus(e, "Command line empty", "kWarning")
                         ELSE IF ExecuteCommandLine(e, e.command_buffer).ok
                              THEN ExecuteCommandLine(e, e.command_buffer).state
                              ELSE SetStatus(e, "Unknown command", "kWarning")
         IN SetMode([executed EXCEPT !.command_buffer = << >>], "kNormal")
    [] event.code = "kBackspace" ->
         IF e.command_buffer = << >> THEN e
         ELSE [e EXCEPT !.command_buffer = SubSeq(@, 1, Len(@) - 1)]
    [] event.code = "kCharacter" -> [e EXCEPT !.command_buffer = Append(@, event.value)]
    [] OTHER -> e

\* ModeController::HandleCommandMode(event)
HandleCommandMode(e, event) ==
  CASE event.code = "kEscape" ->
         ClearStatus(SetMode([e EXCEPT !.command_buffer = << >>], "kNormal"))
    [] event.code = "kEnter" ->
         LET executed == IF e.command_buffer = << >>
                         THEN SetStatus(e, "Command line empty", "kWarning")
                         ELSE IF ExecuteCommandLine(e, e.command_buffer).ok
                              THEN ExecuteCommandLine(e, e.command_buffer).state
                              ELSE SetStatus(e, "Unknown command", "kWarning")
         IN SetMode([executed EXCEPT !.command_buffer = << >>], "kNormal")
    [] event.code = "kBackspace" ->
         IF e.command_buffer = << >> THEN e
         ELSE [e EXCEPT !.command_buffer = SubSeq(@, 1, Len(@) - 1)]
    [] event.code = "kCharacter" -> [e EXCEPT !.command_buffer = Append(@, event.value)]
    [] OTHER -> e

\* ModeController::HandleEvent(event)
HandleEvent(e, event) ==
  CASE e.mode = "kInsert" -> HandleInsertMode([e EXCEPT !.path = "insert"], event)
    [] e.mode = "kCommandLine" -> HandleCommandMode([e EXCEPT !.path = "command line"], event)
    [] OTHER -> HandleNormalMode(e, event)

\* the key events of the model
Arrows == {SpecialKey(code) : code \in {"kArrowUp", "kArrowDown", "kArrowLeft", "kArrowRight"}}
OtherSpecialKeys == {SpecialKey(code) : code \in {"kEscape", "kEnter", "kBackspace"}}
NormalCharacters ==
  {"h", "j", "k", "l", "i", "a", "A", "I", "o", "O", ":", "x", "d", "g", "G", "0", "2",
   "z"}
InsertCharacters == {"a"}
CommandCharacters == {"d", "2", "q"}

CountDigits(count) == IF count = 0 THEN 0 ELSE Len(ToString(count))

RECURSIVE CharacterCount(_)
CharacterCount(lines) ==
  IF lines = << >> THEN 0 ELSE Len(Head(lines)) + CharacterCount(Tail(lines))

\* the key events a session within the bounds can type next
KeysInBounds ==
  CASE mode_ = "kInsert" ->
         Arrows \cup {SpecialKey("kEscape"), SpecialKey("kBackspace")}
           \cup (IF Len(lines_) < MaxLines THEN {SpecialKey("kEnter")} ELSE {})
           \cup (IF CharacterCount(lines_) < MaxCharacters
                 THEN {CharacterKey(value) : value \in InsertCharacters} ELSE {})
    [] mode_ = "kCommandLine" ->
         OtherSpecialKeys
           \cup (IF Len(command_buffer_) < MaxCommandLength
                 THEN {CharacterKey(value) : value \in CommandCharacters} ELSE {})
    [] OTHER ->
         Arrows \cup OtherSpecialKeys
           \cup {CharacterKey(value) :
                   value \in {character \in NormalCharacters :
                     /\ character \in {"o", "O"} => Len(lines_) < MaxLines
                     /\ character \in Digits =>
                          IF pending_normal_command_ = << >>
                          THEN CountDigits(prefix_count_) < MaxCountDigits
                          ELSE CountDigits(motion_count_) < MaxCountDigits}}

\* the main thread hands a key event to the mode engine; `memory` is what
\* the history keeps of the state before the key
Dispatch(keys, memory) ==
  /\ running_
  /\ \E event \in keys :
       \E after \in {HandleEvent(Editor, event)} :
       /\ lines_' = after.lines
       /\ dirty_' = after.dirty
       /\ cursor_line_' = after.cursor_line
       /\ cursor_column_' = after.cursor_column
       /\ mode_' = after.mode
       /\ running_' = after.running
       /\ status_message_' = after.status_message
       /\ status_severity_' = after.status_severity
       /\ command_buffer_' = after.command_buffer
       /\ pending_normal_command_' = after.pending
       /\ prefix_count_' = after.prefix_count
       /\ motion_count_' = after.motion_count
       /\ has_prefix_count_' = after.has_prefix_count
       /\ has_motion_count_' = after.has_motion_count
       /\ yank_buffer_' = after.yank_buffer
       /\ yank_linewise_' = after.yank_linewise
       /\ has_last_find_' = after.has_last_find
       /\ last_find_target_' = after.last_find_target
       /\ last_find_backward_' = after.last_find_backward
       /\ last_find_till_' = after.last_find_till
       /\ handled' = [turn |-> 1 - handled.turn, event |-> event, path |-> after.path,
                      command_id |-> after.command_id]
       /\ before' = memory
  /\ UNCHANGED <<RegistryVars, NotifyVars, ThreadVars>>
  /\ UNCHANGED <<produced, pushed, consumed, applied, events_, queue_mutex_, input_pc,
                 input_event, main_pc, batch, stop_requested>>

Handle(keys) == Dispatch(keys, before)

\* a session at the keyboard, nothing registered
HandleKey == Handle(KeysInBounds)
NextEditor == HandleKey
SpecEditor == Init /\ [][NextEditor]_vars

\* contributions register commands and keybindings of the gestures x and
\* <Esc> while the keys x, d and Escape are typed in Normal mode
MaxBindingToken == 3
RpcCallable == [native_callback |-> FALSE, rpc_endpoint |-> "ipc"]
BoundCommandPayloads ==
  {[descriptor |-> CommandDescriptor("save", <<"kNormal">>, "kNone"), callable |-> NativeCallable],
   [descriptor |-> CommandDescriptor("send", <<"kNormal">>, "kNone"), callable |-> RpcCallable]}
GestureDescriptors ==
  {KeybindingDescriptor("a", "save", "kNormal", "x"),
   KeybindingDescriptor("b", "open", "kNormal", "x"),
   KeybindingDescriptor("c", "send", "kAny", "x"),
   KeybindingDescriptor("e", "save", "kNormal", "<Esc>")}
BoundKeys == {CharacterKey("x"), CharacterKey("d"), SpecialKey("kEscape")}

RegisterBoundCommand ==
  /\ OutsideRegistryUnchanged
  /\ Budget(MaxBindingToken)
  /\ RegisterCommandFrom(BoundCommandPayloads, PluginContribution)
RegisterGesture ==
  /\ OutsideRegistryUnchanged
  /\ Budget(MaxBindingToken)
  /\ RegisterKeybindingFrom(GestureDescriptors, PluginContribution)
HandleBoundKey == Handle(BoundKeys)
NextBindings == RegisterBoundCommand \/ RegisterGesture \/ HandleBoundKey
SpecBindings == Init /\ [][NextBindings]_vars

\* the same contributions while the keys 2, x, d and Escape are typed
CountedBoundKeys ==
  BoundKeys \cup (IF CountDigits(prefix_count_) < MaxCountDigits /\ pending_normal_command_ = << >>
                  THEN {CharacterKey("2")} ELSE {})
HandleCountedBoundKey == Handle(CountedBoundKeys)
NextCountedBindings == RegisterBoundCommand \/ RegisterGesture \/ HandleCountedBoundKey
SpecCountedBindings == Init /\ [][NextCountedBindings]_vars

\* EditorApp::LoadFile: the buffer holds the lines of one of the files
LoadFile(files) ==
  /\ InitOutsideBuffer
  /\ lines_ \in files

\* what the history keeps of the state before a key event
TextAndCursor ==
  [lines |-> lines_, cursor_line |-> cursor_line_, cursor_column |-> cursor_column_]

\* a digit may be typed while the count it belongs to is within the bound
CountInBounds ==
  IF pending_normal_command_ = << >> THEN CountDigits(prefix_count_) < MaxCountDigits
  ELSE CountDigits(motion_count_) < MaxCountDigits

\* a session in Normal mode over a file of four lines: lines are deleted,
\* yanked and pasted, with counts, until the buffer has MaxPastedLines lines
MaxPastedLines == 4
YankFiles == {<< <<"a">>, <<"b">>, <<"c">>, <<"d">> >>}
YankCharacters == {"d", "y", "p", "j", "3"}
YankKeys ==
  {CharacterKey(value) :
     value \in {character \in YankCharacters :
       /\ character \in Digits => CountInBounds
       /\ character = "p" => Len(lines_) + Len(yank_buffer_) <= MaxPastedLines}}
HandleYankKey == Dispatch(YankKeys, TextAndCursor)
NextYank == HandleYankKey
SpecYank == LoadFile(YankFiles) /\ [][NextYank]_vars

\* a session in Normal mode over a file of two words on two lines or of one
\* line with a blank: find commands, word deletions, x and motions, with
\* counts; no key of the session leaves Normal mode
FindFiles ==
  {<< <<"a", "b", "c">>, <<"d", "e", "f">> >>,
   << <<"b", " ", "c", "b">> >>}
FindCharacters == {"f", "F", "t", "d", "w", "x", "b", "c", "l", "n", "2"}
FindKeys ==
  {CharacterKey(value) :
     value \in {character \in FindCharacters : character \in Digits => CountInBounds}}
HandleFindKey == Dispatch(FindKeys, TextAndCursor)
NextFind == HandleFindKey
SpecFind == LoadFile(FindFiles) /\ [][NextFind]_vars

\* a session of counted commands: counts of up to MaxPrefixDigits and
\* MaxMotionDigits digits (9 in a prefix count, 2 and 0 in a motion count)
\* before and inside dd and yy, before j, k and x
MaxPrefixDigits == 7
MaxMotionDigits == 1
CountedFiles == {<< <<"a", "b">>, <<"c">>, <<"d">> >>}
CountedCharacters == {"d", "y", "j", "k", "x", "2", "9", "0"}
CountedKeys ==
  {CharacterKey(value) :
     value \in {character \in CountedCharacters :
       /\ character \in Digits =>
            IF pending_normal_command_ = << >>
            THEN CountDigits(prefix_count_) < MaxPrefixDigits
            ELSE CountDigits(motion_count_) < MaxMotionDigits
       /\ character = "9" => pending_normal_command_ = << >>
       /\ character \in {"2", "0"} => pending_normal_command_ # << >>}}
HandleCountedKey == Handle(CountedKeys)
NextCounted == HandleCountedKey
SpecCounted == LoadFile(CountedFiles) /\ [][NextCounted]_vars

\* a session of finds and their repeats on one line
RepeatFiles == {<< <<"b", "c", "b", "c">> >>}
RepeatCharacters == {"f", "F", "t", "c", ";", ",", "n", "N", "l"}
RepeatKeys == {CharacterKey(value) : value \in RepeatCharacters}
HandleRepeatKey == Dispatch(RepeatKeys, TextAndCursor)
NextRepeat == HandleRepeatKey
SpecRepeat == LoadFile(RepeatFiles) /\ [][NextRepeat]_vars

\* a session of keys that fail: the unmapped key z, d and y with z or 0
\* after them, f with a target that is not there, p while nothing is
\* yanked, x on the empty line, and the other keys where they succeed
ErrorFiles == {<< <<"a", " ", "b">>, << >> >>}
ErrorCharacters == {"z", "d", "y", "f", "p", "x", "0", "b", "l", "j"}
ErrorKeys ==
  {CharacterKey(value) :
     value \in {character \in ErrorCharacters : character = "p" => yank_buffer_ = << >>}}
HandleErrorKey == Handle(ErrorKeys)
NextErrors == HandleErrorKey
SpecErrors == LoadFile(ErrorFiles) /\ [][NextErrors]_vars

(***************************************************************************)
(* Vocabulary of the properties.                                           *)
(***************************************************************************)
\* (origin rank, priority) of a is greater than or equal to that of b
RankAtLeast(a, b) ==
  \/ PrecedenceRank(a.origin) > PrecedenceRank(b.origin)
  \/ /\ PrecedenceRank(a.origin) = PrecedenceRank(b.origin)
     /\ a.priority >= b.priority

Range(list) == {list[i] : i \in DOMAIN list}

BindingKeys == {ComposeBindingKey("kNormal", "x"), ComposeBindingKey("kAny", "y")}
KeyMode(key) == IF key = ComposeBindingKey("kNormal", "x") THEN "kNormal" ELSE "kAny"
KeyGesture(key) == IF key = ComposeBindingKey("kNormal", "x") THEN "x" ELSE "y"
\* the active entry of a binding key, as ResolveKeybinding reports it
ActiveKeybinding(key) == ResolveKeybinding(KeyMode(key), KeyGesture(key))

CommandsDominateShadow ==
  \A id \in DOMAIN command_shadow_ :
    /\ id \in DOMAIN commands_
    /\ \A e \in Range(command_shadow_[id]) : RankAtLeast(commands_[id], e)

KeybindingsDominateShadow ==
  \A key \in DOMAIN keybinding_shadow_ :
    ActiveKeybinding(key) # NoRecord =>
      \A e \in Range(keybinding_shadow_[key]) : RankAtLeast(ActiveKeybinding(key), e)

OneActiveKeybindingPerKey ==
  \A key \in BindingKeys :
    Cardinality({id \in DOMAIN keybindings_by_id_ : keybindings_by_id_[id].binding_key = key}) <= 1

\* the call RegisterCommand(payload with the priority of c, origin of c)
CommandCall(payload, c) ==
  RegisterCommand([descriptor |-> payload.descriptor, callable |-> payload.callable,
                   priority |-> c.priority], [kind |-> c.kind])

\* the call RegisterKeybinding(descriptor with the priority of c, origin of c)
KeybindingCall(descriptor, c) ==
  RegisterKeybinding([descriptor |-> descriptor, priority |-> c.priority], [kind |-> c.kind])

AllCommandPayloads == CommandPayloads \cup InvalidCommandPayloads
AllKeybindingDescriptors ==
  KeybindingDescriptorsX \cup KeybindingDescriptorsY \cup InvalidKeybindingDescriptors

\* the order of the origins as the specification words it: Core < Native < Plugin < User
OriginOrder == <<"kCore", "kNative", "kPlugin", "kUser">>
OriginPosition(kind) == CHOOSE i \in DOMAIN OriginOrder : OriginOrder[i] = kind

(***************************************************************************)
(* C1. After any sequence of RegisterCommand, RegisterKeybinding and       *)
(* Unregister calls every command id and every (mode, gesture) binding key *)
(* has at most one active entry, and the (origin rank, priority) of that   *)
(* active entry is greater than or equal to that of every entry of the     *)
(* shadow stack of the same id or key.                                     *)
(***************************************************************************)
C1_ActiveEntryDominatesShadowStack ==
  /\ CommandsDominateShadow
  /\ OneActiveKeybindingPerKey
  /\ KeybindingsDominateShadow

(***************************************************************************)
(* C2. A RegisterCommand call that passes validation, for an id that has   *)
(* an active entry, is decided by comparing the incoming registration with *)
(* the active entry alone: a higher origin rank makes the incoming entry   *)
(* active and appends the old active entry to the shadow stack of the id;  *)
(* a lower rank appends the incoming entry to the shadow stack (Shadowed); *)
(* at equal rank the priority decides in the same way; at equal rank and   *)
(* priority the call is Shadowed when modes, parameters and undo scope are *)
(* equal, and Rejected, with active entry and shadow stack unchanged,      *)
(* otherwise.                                                              *)
(***************************************************************************)
\* the decision as the claim words it
C2_Decision(active, kind, priority, descriptor) ==
  LET mine == OriginPosition(kind)
      theirs == OriginPosition(active.origin.kind)
  IN IF mine > theirs THEN "replace"
     ELSE IF mine < theirs THEN "shadow"
     ELSE IF priority > active.priority THEN "replace"
     ELSE IF priority < active.priority THEN "shadow"
     ELSE IF /\ descriptor.modes = active.descriptor.modes
             /\ descriptor.parameters = active.descriptor.parameters
             /\ descriptor.undo_scope = active.descriptor.undo_scope
          THEN "shadow"
          ELSE "reject"

C2_Outcome(payload, c) ==
  LET id == payload.descriptor.id
      incoming == [descriptor |-> payload.descriptor, callable |-> payload.callable,
                   origin |-> [kind |-> c.kind], priority |-> c.priority,
                   token |-> next_token_, sequence |-> next_sequence_]
      decision == C2_Decision(commands_[id], c.kind, c.priority, payload.descriptor)
      stack == ListAt(command_shadow_, id)
  IN CASE decision = "replace" ->
            /\ result'.status = "kApplied"
            /\ commands_'[id] = incoming
            /\ command_shadow_'[id] = Append(stack, commands_[id])
       [] decision = "shadow" ->
            /\ result'.status = "kShadowed"
            /\ commands_' = commands_
            /\ command_shadow_'[id] = Append(stack, incoming)
       [] decision = "reject" ->
            /\ result'.status = "kRejected"
            /\ commands_' = commands_
            /\ command_shadow_' = command_shadow_

C2_RegisterCommandDecidedAgainstActiveEntry ==
  [][\A payload \in AllCommandPayloads, c \in Contributions :
       ( /\ CallableIsValid(payload.callable)
         /\ payload.descriptor.id \in DOMAIN commands_
         /\ result'.op = "RegisterCommand"
         /\ CommandCall(payload, c) )
       => C2_Outcome(payload, c)]_vars

\* a registration of the rank of the active entry took its place by priority
C2_Witness ==
  /\ result.op = "RegisterCommand"
  /\ result.status = "kApplied"
  /\ result.conflict # NoConflict
  /\ result.conflict.winner_origin = result.conflict.loser_origin
  /\ "save" \in DOMAIN command_shadow_
  /\ commands_["save"].priority > command_shadow_["save"][Len(command_shadow_["save"])].priority

(***************************************************************************)
(* C3. Conflict resolution treats keybindings by (mode, gesture) key as it *)
(* treats commands: a RegisterKeybinding call whose origin rank and        *)
(* priority tie with the active entry of the same (mode, gesture) and      *)
(* whose descriptor is fully equal to the descriptor of the active entry   *)
(* returns Shadowed with a valid handle, is added to the shadow stack of   *)
(* the key, and records a conflict note.                                   *)
(***************************************************************************)
C3_EqualKeybindingIsShadowed ==
  [][\A descriptor \in AllKeybindingDescriptors, c \in KeybindingContributions :
       LET active == ResolveKeybinding(descriptor.mode, descriptor.gesture)
           key == ComposeBindingKey(descriptor.mode, descriptor.gesture)
       IN ( /\ descriptor.gesture # ""
            /\ active # NoRecord
            /\ OriginPosition(active.origin.kind) = OriginPosition(c.kind)
            /\ active.priority = c.priority
            /\ active.descriptor = descriptor
            /\ result'.op = "RegisterKeybinding"
            /\ KeybindingCall(descriptor, c) )
          => /\ result'.status = "kShadowed"
             /\ result'.handle.token # 0
             /\ key \in DOMAIN keybinding_shadow_'
             /\ \E e \in Range(keybinding_shadow_'[key]) :
                  e.token = result'.handle.token /\ e.descriptor = descriptor
             /\ Len(conflicts_') = Len(conflicts_) + 1]_vars

(***************************************************************************)
(* C4. Keybinding ids are unique across active and shadow storage: no two  *)
(* stored keybinding entries, active or shadowed, have the same id, and a  *)
(* RegisterKeybinding call with the id of a stored keybinding, active or   *)
(* shadowed, is Rejected.                                                  *)
(***************************************************************************)
ShadowedKeybindings ==
  UNION {Range(keybinding_shadow_[key]) : key \in DOMAIN keybinding_shadow_}
ActiveKeybindings == {keybindings_by_id_[id] : id \in DOMAIN keybindings_by_id_}
StoredKeybindings == ActiveKeybindings \cup ShadowedKeybindings

StoredKeybindingIdsUnique ==
  \A e1, e2 \in StoredKeybindings : e1.descriptor.id = e2.descriptor.id => e1 = e2

C4_KeybindingIdsUnique ==
  [][/\ StoredKeybindingIdsUnique'
     /\ \A descriptor \in AllKeybindingDescriptors, c \in KeybindingContributions :
          ( /\ \E e \in StoredKeybindings : e.descriptor.id = descriptor.id
            /\ result'.op = "RegisterKeybinding"
            /\ KeybindingCall(descriptor, c) )
          => result'.status = "kRejected"]_vars

(***************************************************************************)
(* C5. The audit log and the notifications of a registration.              *)
(***************************************************************************)
\* the registry lets the call through as the first registration of its id
CleanCommandCall(payload) ==
  /\ payload.descriptor.id # ""
  /\ CallableIsValid(payload.callable)
  /\ payload.descriptor.id \notin DOMAIN commands_

\* the registry lets the call through as the first registration of its key
CleanKeybindingCall(descriptor) ==
  /\ descriptor.id # ""
  /\ descriptor.gesture # ""
  /\ \A e \in StoredKeybindings : e.descriptor.id # descriptor.id
  /\ ResolveKeybinding(descriptor.mode, descriptor.gesture) = NoRecord

\* the call appended exactly one ConflictRecord, the one it returns
OneConflictAppended ==
  /\ Len(conflicts_') = Len(conflicts_) + 1
  /\ SubSeq(conflicts_', 1, Len(conflicts_)) = conflicts_
  /\ conflicts_'[Len(conflicts_')] = result'.conflict

\* two events for a replace, one for a shadow, none for a reject
EventsOfDecision ==
  Len(events') = CASE result'.status = "kApplied" -> 2
                   [] result'.status = "kShadowed" -> 1
                   [] result'.status = "kRejected" -> 0

\* the Register calls of a step, with what the step has to satisfy when the
\* call is not a clean first registration
RegisterCallsSatisfy(NotClean) ==
  /\ \A payload \in AllCommandPayloads, c \in FewContributions :
       (result'.op = "RegisterCommand" /\ CommandCall(payload, c)) =>
         IF CleanCommandCall(payload) THEN conflicts_' = conflicts_ ELSE NotClean
  /\ \A descriptor \in AllKeybindingDescriptors, c \in FewContributions :
       (result'.op = "RegisterKeybinding" /\ KeybindingCall(descriptor, c)) =>
         IF CleanKeybindingCall(descriptor) THEN conflicts_' = conflicts_ ELSE NotClean

\* C5 as stated: every RegisterCommand or RegisterKeybinding call that is
\* not a clean first-time registration of its id/key appends exactly one
\* ConflictRecord to the audit log and delivers one or two RegistryEvents; a
\* clean first-time registration appends no ConflictRecord.
C5_NotCleanRegistrationLogsAndNotifies ==
  [][RegisterCallsSatisfy(OneConflictAppended /\ Len(events') \in {1, 2})]_vars

\* C5 as the code has it: every RegisterCommand or RegisterKeybinding call
\* that is not a clean first-time registration of its id/key appends exactly
\* one ConflictRecord to the audit log; it delivers two RegistryEvents when
\* it replaces the active entry, one when it is shadowed and none when it is
\* rejected; a clean first-time registration appends no ConflictRecord.
C5_NotCleanRegistrationLogsAndNotifiesUnlessRejected ==
  [][RegisterCallsSatisfy(OneConflictAppended /\ EventsOfDecision)]_vars

\* a command was rejected for its signature: logged, and nobody was notified
C5_Witness ==
  /\ result.op = "RegisterCommand"
  /\ result.status = "kRejected"
  /\ result.conflict.message =
       "Command signature conflict with identical precedence and priority"
  /\ conflicts_ # << >>
  /\ conflicts_[Len(conflicts_)] = result.conflict
  /\ events = << >>

(***************************************************************************)
(* C6. Registering a command id first from a Core origin and then from a   *)
(* User origin returns Applied for the second registration, makes the User *)
(* entry the active one, appends exactly one ConflictRecord and keeps the  *)
(* Core entry in the shadow stack of the id; a following Unregister with   *)
(* the handle of the User registration returns true and makes the Core     *)
(* entry the active entry again.                                           *)
(***************************************************************************)
UserOverCoreApplied ==
  \A payload \in CommandPayloads, c \in Contributions :
    LET id == payload.descriptor.id IN
    ( /\ c.kind = "kUser"
      /\ id \in DOMAIN commands_
      /\ commands_[id].origin.kind = "kCore"
      /\ result'.op = "RegisterCommand"
      /\ CommandCall(payload, c) )
    => /\ result'.status = "kApplied"
       /\ id \in DOMAIN commands_'
       /\ commands_'[id].origin.kind = "kUser"
       /\ commands_'[id].token = result'.handle.token
       /\ OneConflictAppended
       /\ id \in DOMAIN command_shadow_'
       /\ commands_[id] \in Range(command_shadow_'[id])

UnregisterUserRestoresCore ==
  ( /\ result.op = "RegisterCommand"
    /\ result.status = "kApplied"
    /\ result.conflict # NoConflict
    /\ result.conflict.winner_origin.kind = "kUser"
    /\ result.conflict.loser_origin.kind = "kCore"
    /\ result'.op = "Unregister"
    /\ Unregister(result.handle) )
  => LET id == result.handle.id
         stack == command_shadow_[id]
     IN /\ result'.success
        /\ id \in DOMAIN commands_'
        /\ commands_'[id] = stack[Len(stack)]
        /\ commands_'[id].origin.kind = "kCore"

C6_UserOverCoreThenUnregisterRestoresCore ==
  [][UserOverCoreApplied /\ UnregisterUserRestoresCore]_vars

\* Core, then User, then the User handle unregistered: the Core entry answers
C6_Witness ==
  /\ result = UnregisterResult(TRUE)
  /\ next_token_ = 3
  /\ version_ = 5
  /\ Len(conflicts_) = 1
  /\ conflicts_[1].winner_origin.kind = "kUser"
  /\ conflicts_[1].loser_origin.kind = "kCore"
  /\ FindCommand("save") # NoRecord
  /\ FindCommand("save").origin.kind = "kCore"
  /\ FindCommand("save").token = 1
  /\ "save" \notin DOMAIN command_shadow_

(***************************************************************************)
(* C7. Registering two Plugin-origin keybindings with different ids on the *)
(* same (Normal, gesture) with equal priority and different command        *)
(* targets: the second registration is Rejected with a ConflictRecord      *)
(* whose winner is the origin of the first registration, it returns an     *)
(* invalid handle, and the first keybinding stays active with the shadow   *)
(* stack of the key and Version() unchanged.                               *)
(***************************************************************************)
C7_PluginTieOnOneKeyIsRejected ==
  [][\A descriptor \in AllKeybindingDescriptors, c \in FewContributions :
       LET active == ResolveKeybinding(descriptor.mode, descriptor.gesture) IN
       ( /\ descriptor.mode = "kNormal"
         /\ descriptor.gesture # ""
         /\ c.kind = "kPlugin"
         /\ active # NoRecord
         /\ active.origin.kind = "kPlugin"
         /\ active.priority = c.priority
         /\ active.descriptor.id # descriptor.id
         /\ active.descriptor.command_id # descriptor.command_id
         /\ result'.op = "RegisterKeybinding"
         /\ KeybindingCall(descriptor, c) )
       => /\ result'.status = "kRejected"
          /\ result'.conflict # NoConflict
          /\ result'.conflict.winner_origin = active.origin
          /\ ~HandleIsValid(result'.handle)
          /\ ResolveKeybinding(descriptor.mode, descriptor.gesture)' = active
          /\ keybinding_shadow_' = keybinding_shadow_
          /\ version_' = version_]_vars

\* the second Plugin keybinding on the key was turned away
C7_Witness ==
  /\ result.op = "RegisterKeybinding"
  /\ result.status = "kRejected"
  /\ result.conflict.message =
       "Conflicting keybinding with identical precedence and priority"
  /\ result.conflict.winner_origin.kind = "kPlugin"
  /\ result.conflict.loser_origin.kind = "kPlugin"
  /\ ResolveKeybinding("kNormal", "x") # NoRecord
  /\ ResolveKeybinding("kNormal", "x").descriptor.id # result.conflict.id

(***************************************************************************)
(* C8. Unregister with the handle of the active entry of an id/key removes *)
(* that entry and promotes, from the shadow stack of that id/key, the      *)
(* entry with the highest origin rank, then the highest priority, then the *)
(* smallest sequence number; the promoted entry leaves the shadow stack,   *)
(* the other shadow entries stay, and if the shadow stack was empty the    *)
(* id/key has no active entry afterwards.                                  *)
(***************************************************************************)
\* e comes before f in the order of the claim
ComesBefore(e, f) ==
  LET e_rank == OriginPosition(e.origin.kind)
      f_rank == OriginPosition(f.origin.kind)
  IN \/ e_rank > f_rank
     \/ e_rank = f_rank /\ e.priority > f.priority
     \/ e_rank = f_rank /\ e.priority = f.priority /\ e.sequence < f.sequence

BestOf(list) == CHOOSE e \in Range(list) : \A f \in Range(list) \ {e} : ComesBefore(e, f)
Without(list, e) == SelectSeq(list, LAMBDA f : f # e)

UnregisterActiveCommandPromotesBest ==
  \A id \in {"save"} :
    LET active == FindCommand(id)
        handle == [resource |-> "kCommand", id |-> id, token |-> active.token]
        stack == ListAt(command_shadow_, id)
    IN ( /\ active # NoRecord
         /\ result'.op = "Unregister"
         /\ Unregister(handle) )
       => /\ result'.success
          /\ IF stack = << >> THEN FindCommand(id)' = NoRecord
             ELSE /\ FindCommand(id)' = BestOf(stack)
                  /\ ListAt(command_shadow_', id) = Without(stack, BestOf(stack))

UnregisterActiveKeybindingPromotesBest ==
  \A key \in BindingKeys :
    LET active == ActiveKeybinding(key)
        handle == [resource |-> "kKeybinding", id |-> active.descriptor.id,
                   token |-> active.token]
        stack == ListAt(keybinding_shadow_, key)
    IN ( /\ active # NoRecord
         /\ result'.op = "Unregister"
         /\ Unregister(handle) )
       => /\ result'.success
          /\ IF stack = << >> THEN ActiveKeybinding(key)' = NoRecord
             ELSE /\ ActiveKeybinding(key)' = BestOf(stack)
                  /\ ListAt(keybinding_shadow_', key) = Without(stack, BestOf(stack))

C8_UnregisterActivePromotesBestShadow ==
  [][UnregisterActiveCommandPromotesBest /\ UnregisterActiveKeybindingPromotesBest]_vars

(***************************************************************************)
(* C9. A registration handle is exactly the capability to unregister:      *)
(* Unregister(h) returns true if and only if h was returned by an Applied  *)
(* or Shadowed registration whose entry is still stored (active, shadowed, *)
(* or promoted in between); handles with token 0 and handles already used  *)
(* return false and leave the active maps, the shadow stacks, the conflict *)
(* log and the version unchanged.                                          *)
(***************************************************************************)
ShadowedCommands == UNION {Range(command_shadow_[id]) : id \in DOMAIN command_shadow_}
StoredCommands == {commands_[id] : id \in DOMAIN commands_} \cup ShadowedCommands

\* h is the handle a registration returned for an entry that is still stored
HandleOfStoredEntry(h) ==
  \/ /\ h.resource = "kCommand"
     /\ \E e \in StoredCommands : e.descriptor.id = h.id /\ e.token = h.token
  \/ /\ h.resource = "kKeybinding"
     /\ \E e \in StoredKeybindings : e.descriptor.id = h.id /\ e.token = h.token

C9_HandleIsExactlyTheCapability ==
  [][\A h \in MixedHandles :
       (result'.op = "Unregister" /\ Unregister(h)) =>
         /\ result'.success <=> HandleOfStoredEntry(h)
         /\ ~result'.success =>
              UNCHANGED <<commands_, command_shadow_, keybindings_by_id_,
                          keybinding_active_key_to_id_, keybinding_shadow_,
                          conflicts_, version_>>]_vars

(***************************************************************************)
(* C10. A successful Unregister of an active entry delivers exactly one    *)
(* RegistryEvent to the subscribers, with status Rejected and the id of    *)
(* the removed entry, and delivers no Applied event for the shadow entry   *)
(* that is promoted in its place.                                          *)
(***************************************************************************)
\* h is the handle of an active command or of an active keybinding
HandleOfActiveEntry(h) ==
  \/ /\ h.resource = "kCommand"
     /\ FindCommand(h.id) # NoRecord
     /\ FindCommand(h.id).token = h.token
  \/ /\ h.resource = "kKeybinding"
     /\ \E key \in BindingKeys :
          /\ ActiveKeybinding(key) # NoRecord
          /\ ActiveKeybinding(key).descriptor.id = h.id
          /\ ActiveKeybinding(key).token = h.token

C10_UnregisterActiveDeliversOneRejectedEvent ==
  [][(result'.op = "Unregister" /\ result'.success) =>
       \A h \in MixedHandles :
         (HandleOfActiveEntry(h) /\ Unregister(h))
         => /\ events' = <<[resource |-> h.resource, id |-> h.id, status |-> "kRejected"]>>
            /\ \A i \in DOMAIN events' : events'[i].status # "kApplied"]_vars

\* keybinding b was unregistered, a shadowed keybinding took the key over,
\* and the one event of the call is the removal of b
C10_Witness ==
  /\ result = UnregisterResult(TRUE)
  /\ Len(events) = 1
  /\ events[1].resource = "kKeybinding"
  /\ events[1].id = "b"
  /\ events[1].status = "kRejected"
  /\ ResolveKeybinding("kNormal", "x") # NoRecord
  /\ ResolveKeybinding("kNormal", "x").descriptor.id = "a"

(***************************************************************************)
(* C11. The version of the registry.                                       *)
(***************************************************************************)
\* the active entries and the shadow stacks
StoredEntries ==
  <<commands_, command_shadow_, keybindings_by_id_, keybinding_active_key_to_id_,
    keybinding_shadow_>>

\* C11 as stated: Registry::Version() never decreases, and it is strictly
\* larger after every Registry operation that changes the stored state of
\* the registry (active entries, shadow stacks or the conflict log) than it
\* was before that operation.
C11_VersionGrowsWithEveryStoredChange ==
  [][/\ version_' >= version_
     /\ (StoredEntries' # StoredEntries \/ conflicts_' # conflicts_) => version_' > version_]_vars

\* C11 as the code has it: Registry::Version() never decreases, and it is
\* strictly larger after every Registry operation that changes the active
\* entries or the shadow stacks; a rejected registration appends to the
\* conflict log and leaves the version as it was.
C11_VersionGrowsWithEveryChangeOfEntries ==
  [][/\ version_' >= version_
     /\ StoredEntries' # StoredEntries => version_' > version_
     /\ (result'.op \in {"RegisterCommand", "RegisterKeybinding"}
           /\ result'.status = "kRejected" /\ conflicts_' # conflicts_)
        => version_' = version_]_vars

\* a shadowed command was taken off its stack: the third change of the entries
C11_Witness ==
  /\ result = UnregisterResult(TRUE)
  /\ events = << >>
  /\ "save" \in DOMAIN commands_
  /\ "save" \notin DOMAIN command_shadow_
  /\ Len(conflicts_) = 1
  /\ version_ = 4

(***************************************************************************)
(* C12. Each RegistryEvent is delivered synchronously, before the          *)
(* registering or unregistering call returns, to every current subscriber, *)
(* and the subscribers are invoked in the order in which they subscribed.  *)
(***************************************************************************)
\* the tokens of a list in the order of the subscriptions
InSubscriptionOrder(list) == SortSeq(list, LAMBDA a, b : a < b)

\* Notify has just copied the callbacks it is going to invoke
NotifyHasCopied ==
  /\ call_stack # << >>
  /\ Len(call_stack') = Len(call_stack)
  /\ Top.pc = "notify"
  /\ Top'.pc = "copied"

\* a call that went through the lock returns
CallReturns ==
  /\ Len(call_stack') < Len(call_stack)
  /\ ~ReturnsBeforeLock(Top)

C12_EventsDeliveredInSubscriptionOrder ==
  [][/\ NotifyHasCopied => Top'.callbacks = InSubscriptionOrder(subscribers_)
     /\ CallReturns => Top.events = << >> /\ Top.callbacks = << >>]_vars

(***************************************************************************)
(* C13. The registry mutex is never held while a subscriber callback runs: *)
(* a callback that itself calls RegisterCommand, RegisterKeybinding,       *)
(* Unregister, Subscribe or Unsubscribe on the registry completes without  *)
(* deadlock, on every path of every registry operation.                    *)
(***************************************************************************)
\* the innermost call is about to invoke a callback
AboutToInvokeCallback == call_stack # << >> /\ Top.pc = "callbacks"

\* the innermost call is at a std::scoped_lock lock(mutex_)
AtScopedLock ==
  /\ call_stack # << >>
  /\ \/ Top.pc = "lock" /\ ~ReturnsBeforeLock(Top)
     \/ Top.pc = "notify" /\ Top.events # << >>

\* callbacks start with the mutex free, and no call of the thread, made by
\* the application or by a callback, waits for a mutex the thread holds
C13_MutexFreeWhileCallbacksRun ==
  /\ AboutToInvokeCallback => mutex_ = "free"
  /\ AtScopedLock => mutex_ = "free"

\* a callback has called RegisterCommand, and that call is inside its lock scope
C13_Witness ==
  /\ Len(call_stack) = 2
  /\ call_stack[1].pc = "callbacks"
  /\ call_stack[2].op = "RegisterCommand"
  /\ call_stack[2].pc = "locked"
  /\ mutex_ = "held"

(***************************************************************************)
(* C15: whatever way Push on the input thread and ConsumeAll on the main   *)
(* thread interleave, the results of all ConsumeAll calls so far, put one  *)
(* after the other and followed by what is still queued, are the pushed    *)
(* events in push order, no event is in them twice, and the queue is empty *)
(* right after the swap of a ConsumeAll.                                   *)
(***************************************************************************)
NoEventTwice(list) ==
  \A i \in 1..Len(list) : \A j \in 1..Len(list) : list[i].id = list[j].id => i = j

C15_EveryPushedEventConsumedOnceInOrder ==
  /\ consumed \o events_ = pushed
  /\ NoEventTwice(consumed \o events_)
  /\ main_pc = "consume_unlock" => events_ = << >>

\* a second ConsumeAll has just swapped while the input thread waits to push
C15_Witness ==
  /\ main_pc = "consume_unlock"
  /\ queue_mutex_ = "main"
  /\ batch # << >>
  /\ consumed # batch
  /\ input_pc = "push"

(***************************************************************************)
(* C16: while the session is running, the key events the input thread has  *)
(* produced are, in the order of their production, the ones already        *)
(* applied, then the rest of the batch in hand, then the queued ones, then *)
(* the one the input thread is about to push: none is skipped, none is     *)
(* applied twice, none overtakes another, also from one batch to the next. *)
(***************************************************************************)
AboutToBePushed == IF input_pc \in {"push", "push_back"} THEN <<input_event>> ELSE << >>

C16_EventsAppliedInProductionOrder ==
  running_ => applied \o batch \o events_ \o AboutToBePushed = produced

\* the third event is applied, from a later batch than the first
C16_Witness ==
  /\ running_
  /\ Len(applied) = 3
  /\ Len(consumed) = 3
  /\ batch = << >>
  /\ main_pc = "handle"

(***************************************************************************)
(* C17: once a handled key event has cleared the running flag, the flag    *)
(* stays cleared and no further key event is applied: not the rest of the  *)
(* batch, not a later batch.                                               *)
(***************************************************************************)
C17_NothingAppliedAfterQuit ==
  [][~running_ => (applied' = applied /\ ~running_')]_vars

\* the quit came with an event of the same batch behind it and one in the queue
C17_Witness ==
  /\ ~running_
  /\ main_pc = "join"
  /\ Len(applied) = 1
  /\ Len(consumed) = 2
  /\ events_ # << >>

(***************************************************************************)
(* C18: after the stop request of StopInputLoop the input loop returns and *)
(* the join of StopInputLoop completes (threads that can step do step).    *)
(***************************************************************************)
C18_InputLoopStopsAfterStopRequest ==
  stop_requested ~> (input_pc = "done" /\ main_pc = "exit")

\* the join has returned although the key source had no further key
C18_Witness ==
  /\ main_pc = "exit"
  /\ input_pc = "done"
  /\ Len(produced) = MaxKeys
  /\ events_ # << >>

(***************************************************************************)
(* C14: a key handled in Normal mode with nothing pending, for whose       *)
(* gesture the registry resolves a keybinding (of the Normal mode first,   *)
(* of Any otherwise), runs the command of that keybinding and not the      *)
(* built-in handling of the key.                                           *)
(***************************************************************************)
KeyHandled == handled'.turn # handled.turn

ResolvedFor(event) ==
  IF ResolveKeybinding("kNormal", MakeGesture(event)) # NoRecord
  THEN ResolveKeybinding("kNormal", MakeGesture(event))
  ELSE ResolveKeybinding("kAny", MakeGesture(event))

C14_ResolvedKeybindingRunsItsCommand ==
  [][(/\ KeyHandled
      /\ mode_ = "kNormal"
      /\ pending_normal_command_ = << >>
      /\ ResolvedFor(handled'.event) # NoRecord)
     => /\ handled'.path = "binding"
        /\ handled'.command_id = ResolvedFor(handled'.event).descriptor.command_id]_vars

(***************************************************************************)
(* C19: the buffer has at least one line at all times, and dd typed on a   *)
(* buffer of one line leaves one line, which is empty.                     *)
(***************************************************************************)
C19_BufferKeepsOneLine ==
  /\ Len(lines_) >= 1
  /\ [][/\ Len(lines_') >= 1
        /\ (/\ KeyHandled
            /\ mode_ = "kNormal"
            /\ pending_normal_command_ = <<"d">>
            /\ handled'.event = CharacterKey("d")
            /\ Len(lines_) = 1)
           => lines_' = <<EmptyLine>>]_vars

\* dd has just emptied a buffer of one line that had text
C19_Witness ==
  /\ handled.event = CharacterKey("d")
  /\ handled.path = "built-in"
  /\ status_message_ = "Deleted 1 line"
  /\ lines_ = <<EmptyLine>>
  /\ dirty_

(***************************************************************************)
(* C20: after every handled key event the cursor is on a line of the       *)
(* buffer and at most one column past the end of that line.                *)
(***************************************************************************)
C20_CursorInsideBuffer ==
  /\ cursor_line_ < Len(lines_)
  /\ cursor_column_ <= Len(lines_[cursor_line_ + 1])

\* Backspace at the start of the second line has joined it to the first
C20_Witness ==
  /\ handled.event = SpecialKey("kBackspace")
  /\ handled.path = "insert"
  /\ Len(lines_) = 1
  /\ cursor_column_ = 1
  /\ Len(lines_[1]) = 2

(***************************************************************************)
(* C21: in Normal mode with nothing pending, every digit typed makes the   *)
(* prefix count ten times what it was plus the digit, and j after the      *)
(* digits of N >= 1 moves the cursor down min(N, number of lines below the *)
(* cursor) lines and leaves the text of the buffer as it was.              *)
(***************************************************************************)
TypedInNormalMode(value) ==
  /\ KeyHandled
  /\ mode_ = "kNormal"
  /\ handled'.event = CharacterKey(value)

ThreeLinesJustDeleted ==
  /\ handled.event = CharacterKey("d")
  /\ status_message_ = "Deleted 3 lines"
  /\ pending_normal_command_ = << >>

C22_PasteAfterThreeDdRestoresLines ==
  [][(TypedInNormalMode("p") /\ ThreeLinesJustDeleted)
     => lines_' = SubSeq(lines_, 1, cursor_line_ + 1)
                    \o SubSeq(before.lines, before.cursor_line + 1, before.cursor_line + 3)
                    \o SubSeq(lines_, cursor_line_ + 2, Len(lines_))]_vars

(***************************************************************************)
(* C23: yy without a count makes the yank buffer the cursor line, and      *)
(* every p typed while the yank buffer holds one whole line puts a copy of *)
(* that line right after the cursor line: the buffer has one line more,    *)
(* its other lines are as they were and in their order, and the yank       *)
(* buffer is as it was.                                                    *)
(***************************************************************************)
C23_EveryPasteOfYankedLineAddsOneLine ==
  [][/\ (/\ TypedInNormalMode("y")
         /\ pending_normal_command_ = <<"y">>
         /\ ~has_prefix_count_ /\ ~has_motion_count_)
        => /\ yank_buffer_' = <<lines_[cursor_line_ + 1]>>
           /\ yank_linewise_'
           /\ lines_' = lines_
     /\ (/\ TypedInNormalMode("p")
         /\ pending_normal_command_ = << >>
         /\ yank_linewise_ /\ Len(yank_buffer_) = 1)
        => /\ Len(lines_') = Len(lines_) + 1
           /\ lines_' = SubSeq(lines_, 1, cursor_line_ + 1)
                          \o yank_buffer_
                          \o SubSeq(lines_, cursor_line_ + 2, Len(lines_))
           /\ yank_buffer_' = yank_buffer_
           /\ yank_linewise_']_vars

\* 3dd, yy and three times p on the file of four lines
C23_Witness ==
  /\ handled.event = CharacterKey("p")
  /\ yank_linewise_
  /\ yank_buffer_ = << <<"d">> >>
  /\ before.lines = << <<"d">>, <<"d">>, <<"d">> >>
  /\ lines_ = << <<"d">>, <<"d">>, <<"d">>, <<"d">> >>

(***************************************************************************)
(* C26: p typed while the yank buffer is empty leaves the text and the     *)
(* cursor as they were, and the status message after it is "Nothing to     *)
(* paste".                                                                 *)
(***************************************************************************)
C26_PasteOfNothingSaysNothingToPaste ==
  [][(/\ TypedInNormalMode("p")
      /\ pending_normal_command_ = << >>
      /\ yank_buffer_ = << >>)
     => /\ lines_' = lines_
        /\ cursor_line_' = cursor_line_
        /\ cursor_column_' = cursor_column_
        /\ status_message_' = "Nothing to paste"]_vars

(***************************************************************************)
(* C25: dw leaves the cursor where it is and deletes up to the start of    *)
(* the next word, not that word: on the buffer of the lines "abc" and      *)
(* "def" with the cursor at line 0, column 0, dw leaves the lines "" and   *)
(* "def" and the cursor at line 0, column 0.                               *)
(***************************************************************************)
C25_DwDeletesUpToNextWord ==
  [][(/\ TypedInNormalMode("w")
      /\ pending_normal_command_ = <<"d">>
      /\ lines_ = << <<"a", "b", "c">>, <<"d", "e", "f">> >>
      /\ cursor_line_ = 0 /\ cursor_column_ = 0)
     => /\ lines_' = << EmptyLine, <<"d", "e", "f">> >>
        /\ cursor_line_' = 0 /\ cursor_column_' = 0]_vars

(***************************************************************************)
(* C24: with f pending, a key of a character other than a digit that does  *)
(* not occur after the cursor on the cursor line leaves the cursor and the *)
(* text as they were and sets a status of severity warning.                *)
(***************************************************************************)
OccursAfterCursor(target) ==
  \E column \in (cursor_column_ + 1)..(Len(lines_[cursor_line_ + 1]) - 1) :
    lines_[cursor_line_ + 1][column + 1] = target

C24_FindOfAbsentTargetOnlyWarns ==
  [][\A target \in Letters :
       (/\ TypedInNormalMode(target)
        /\ pending_normal_command_ = <<"f">>
        /\ ~OccursAfterCursor(target))
       => /\ lines_' = lines_
          /\ cursor_line_' = cursor_line_
          /\ cursor_column_' = cursor_column_
          /\ status_severity_' = "kWarning"]_vars

(***************************************************************************)
(* C29: with d or y pending, a key of a character that is no digit and     *)
(* with the operator makes no two-key command (the operator doubled or a   *)
(* motion after it) is rejected: the status has severity warning and the   *)
(* text, the cursor and the mode are as they were.  With d, y, f, F, t or  *)
(* T pending, every key of a character that is no digit leaves nothing     *)
(* pending.                                                                *)
(***************************************************************************)
OperatorMotions == {"w", "W", "b", "B", "e", "E", "$", "{", "}"}

C29_PendingCommandCompletesOrIsRejected ==
  [][\A value \in (Letters \cup OperatorMotions) :
       /\ (/\ TypedInNormalMode(value)
           /\ pending_normal_command_ \in {<<"d">>, <<"y">>}
           /\ value \notin OperatorMotions \cup {pending_normal_command_[1]})
          => /\ status_severity_' = "kWarning"
             /\ lines_' = lines_
             /\ cursor_line_' = cursor_line_
             /\ cursor_column_' = cursor_column_
             /\ mode_' = mode_
       /\ (/\ TypedInNormalMode(value)
           /\ pending_normal_command_ \in
                {<<"d">>, <<"y">>, <<"f">>, <<"F">>, <<"t">>, <<"T">>})
          => pending_normal_command_' = << >>]_vars

(***************************************************************************)
(* C27: the mode is Normal, Insert or CommandLine, never Visual; it        *)
(* changes only from Normal to Insert on one of i, a, A, I, o, O, from     *)
(* Insert to Normal on Escape, from Normal to CommandLine on ':' and from  *)
(* CommandLine to Normal on Escape or Enter; and while the mode is not     *)
(* CommandLine the command-line buffer is empty.                           *)
(***************************************************************************)
ModeEdge(from, to, keys) ==
  /\ mode_ = from
  /\ mode_' = to
  /\ KeyHandled
  /\ handled'.event \in keys

C27_ModeChangesOnlyAlongItsEdges ==
  /\ mode_ \in {"kNormal", "kInsert", "kCommandLine"}
  /\ mode_ # "kCommandLine" => command_buffer_ = << >>
  /\ [][/\ mode_' \in {"kNormal", "kInsert", "kCommandLine"}
        /\ mode_' # "kCommandLine" => command_buffer_' = << >>
        /\ mode_' # mode_ =>
             \/ ModeEdge("kNormal", "kInsert",
                         {CharacterKey(value) : value \in {"i", "a", "A", "I", "o", "O"}})
             \/ ModeEdge("kInsert", "kNormal", {SpecialKey("kEscape")})
             \/ ModeEdge("kNormal", "kCommandLine", {CharacterKey(":")})
             \/ ModeEdge("kCommandLine", "kNormal",
                         {SpecialKey("kEscape"), SpecialKey("kEnter")})]_vars

\* :d and Enter have deleted a line and gone back to Normal mode
C27_Witness ==
  /\ handled.event = SpecialKey("kEnter")
  /\ handled.path = "command line"
  /\ mode_ = "kNormal"
  /\ status_message_ = "Deleted line 1"
  /\ command_buffer_ = << >>


(***************************************************************************)
(* C28: a key handled in Normal mode leaves the pending command empty and  *)
(* both counts cleared (their values 0, their flags off), unless it is a   *)
(* digit of a count or the first key d, c, y, f, F, t or T of a command    *)
(* typed with nothing pending.  So the pending state is cleared by Escape, *)
(* by every command that completes (with success or not) and by every key  *)
(* that is no command ("Unknown command").                                 *)
(***************************************************************************)
CommandStarters == {"d", "c", "y", "f", "F", "t", "T"}

PendingStateCleared ==
  /\ pending_normal_command_' = << >>
  /\ prefix_count_' = 0
  /\ motion_count_' = 0
  /\ ~has_prefix_count_'
  /\ ~has_motion_count_'

C28_PendingStateClearedByEscapeCompletionAndUnmappedKey ==
  [][(KeyHandled /\ mode_ = "kNormal") =>
       /\ \/ PendingStateCleared
          \/ handled'.event \in {CharacterKey(digit) : digit \in Digits}
          \/ /\ handled'.event \in {CharacterKey(value) : value \in CommandStarters}
             /\ pending_normal_command_ = << >>
       /\ handled'.event = SpecialKey("kEscape") => PendingStateCleared
       /\ status_message_' = "Unknown command" => PendingStateCleared]_vars

(***************************************************************************)
(* C30: a count is set when digits were typed for it and it is not 0.  The *)
(* count dd, yy, x, j and k apply is the motion count if only that is set, *)
(* the prefix count if only that is set, the product of the two capped at  *)
(* 1,000,000 if both are set, and 1 if none is: j and k move the cursor by *)
(* that many lines, dd removes and yy copies that many lines, x removes    *)
(* that many characters, each as far as the buffer goes.  Neither count    *)
(* ever exceeds 1,000,000 and both are cleared by the command.             *)
(***************************************************************************)
PrefixCountSet == has_prefix_count_ /\ prefix_count_ # 0
MotionCountSet == has_motion_count_ /\ motion_count_ # 0

ExpectedCount ==
  CASE MotionCountSet /\ PrefixCountSet ->
         IF prefix_count_ * motion_count_ > 1000000 THEN 1000000
         ELSE prefix_count_ * motion_count_
    [] MotionCountSet /\ ~PrefixCountSet -> motion_count_
    [] ~MotionCountSet /\ PrefixCountSet -> prefix_count_
    [] OTHER -> 1

LinesFromCursor == Len(lines_) - cursor_line_
CharactersFromCursor == Len(lines_[cursor_line_ + 1]) - cursor_column_

CountsCleared ==
  /\ prefix_count_' = 0
  /\ motion_count_' = 0
  /\ ~has_prefix_count_'
  /\ ~has_motion_count_'

C30_CountedCommandAppliesEffectiveCount ==
  /\ prefix_count_ <= 1000000 /\ motion_count_ <= 1000000
  /\ [][/\ prefix_count_' <= 1000000 /\ motion_count_' <= 1000000
        /\ TypedInNormalMode("j") =>
             /\ cursor_line_' = Min(cursor_line_ + ExpectedCount, Len(lines_) - 1)
             /\ CountsCleared
        /\ TypedInNormalMode("k") =>
             /\ cursor_line_' = Max(cursor_line_ - ExpectedCount, 0)
             /\ CountsCleared
        /\ TypedInNormalMode("x") =>
             /\ status_message_' = "Deleted characters" =>
                  Len(lines_'[cursor_line_ + 1]) =
                    Len(lines_[cursor_line_ + 1]) - Min(ExpectedCount, CharactersFromCursor)
             /\ CountsCleared
        /\ (TypedInNormalMode("d") /\ pending_normal_command_ = <<"d">>) =>
             /\ Len(lines_') = Max(Len(lines_) - Min(ExpectedCount, LinesFromCursor), 1)
             /\ CountsCleared
        /\ (TypedInNormalMode("y") /\ pending_normal_command_ = <<"y">>) =>
             /\ Len(yank_buffer_') = Min(ExpectedCount, LinesFromCursor)
             /\ CountsCleared
        /\ (\/ \E value \in {"h", "j", "k", "l", "x"} : TypedInNormalMode(value)
            \/ TypedInNormalMode("d") /\ pending_normal_command_ = <<"d">>
            \/ TypedInNormalMode("y") /\ pending_normal_command_ = <<"y">>
            \/ /\ \E value \in Letters : TypedInNormalMode(value)
               /\ pending_normal_command_ \in {<<"f">>, <<"F">>, <<"t">>, <<"T">>})
           => CountOr(Editor, 1) = ExpectedCount]_vars


\* dd with a count of 1,000,000 (seven digits 9 capped, alone or times a
\* motion count 2) has run to the end of the buffer and has cleared the counts
C30_Witness ==
  /\ handled.event = CharacterKey("d")
  /\ status_message_ = "Deleted 1000000 lines"
  /\ prefix_count_ = 0
  /\ motion_count_ = 0
  /\ ~has_prefix_count_
  /\ ~has_motion_count_


(***************************************************************************)
(* C31: d and then one of the word motions w, W, e, E, b, B, typed with an *)
(* effective count N, leaves the text of the buffer without the characters *)
(* between the cursor and the position the motion reaches when it runs N   *)
(* times from the cursor (the character at that position too for e and E), *)
(* whether that position lies after or before the cursor.                  *)
(***************************************************************************)
WordMotions == {"w", "W", "e", "E", "b", "B"}

PositionBefore(a, b) == a.line < b.line \/ (a.line = b.line /\ a.column <= b.column)

TextWithoutSpan(motion) ==
  LET cursor == TextPosition(cursor_line_, cursor_column_)
      reached == AdvanceWords(Editor, motion, cursor, ExpectedCount)
      target == IF motion \in {"e", "E"}
                THEN TextPosition(reached.line, reached.column + 1) ELSE reached
      from == IF PositionBefore(cursor, target) THEN cursor ELSE target
      to == IF PositionBefore(cursor, target) THEN target ELSE cursor
  IN DeleteCharacterRange(Editor, from.line, from.column, to.line, to.column).state.lines

C31_DeleteWithWordMotionDeletesTheSpan ==
  [][\A motion \in WordMotions :
       (TypedInNormalMode(motion) /\ pending_normal_command_ = <<"d">>)
         => lines_' = TextWithoutSpan(motion)]_vars


(***************************************************************************)
(* C32: a find command f, F, t or T with effective count N and a target    *)
(* that no single-key command takes first moves the cursor to the Nth      *)
(* occurrence of the target after (f, t) or before (F, T) the cursor on    *)
(* the cursor line (for t and T to the column next to it on the side of    *)
(* the cursor); when there are fewer than N occurrences the status is      *)
(* "Target not found", the cursor stays and the pending state is cleared.  *)
(***************************************************************************)
FindCommands == {"f", "F", "t", "T"}
FindTargets == Letters \ {"h", "j", "k", "l", "i", "a", "o", "x"}

OccurrencesInDirection(command, target) ==
  {column \in 0..(Len(lines_[cursor_line_ + 1]) - 1) :
     /\ lines_[cursor_line_ + 1][column + 1] = target
     /\ IF command \in {"F", "T"} THEN column < cursor_column_ ELSE column > cursor_column_}

NthOccurrence(command, target) ==
  {column \in OccurrencesInDirection(command, target) :
     Cardinality({nearer \in OccurrencesInDirection(command, target) :
                    IF command \in {"F", "T"} THEN nearer > column ELSE nearer < column})
       = ExpectedCount - 1}

LandingColumn(command, column) ==
  CASE command = "t" -> column - 1
    [] command = "T" -> column + 1
    [] OTHER -> column

C32_FindWithCountMovesToNthOccurrence ==
  [][\A command \in FindCommands : \A target \in FindTargets :
       (TypedInNormalMode(target) /\ pending_normal_command_ = <<command>>)
         => /\ cursor_line_' = cursor_line_
            /\ PendingStateCleared
            /\ \A column \in NthOccurrence(command, target) :
                 cursor_column_' = LandingColumn(command, column)
            /\ NthOccurrence(command, target) = {} =>
                 /\ cursor_column_' = cursor_column_
                 /\ status_message_' = "Target not found"]_vars


(***************************************************************************)
(* C33: a find that succeeds (f, F, t, T with its target, or the repeat of *)
(* the last find by n or, reversed, by N) leaves the cursor on the cursor  *)
(* line at a column strictly after the one it had when the search goes     *)
(* forward, strictly before it when the search goes backward; after t the  *)
(* target is the character right of the cursor and after T the character   *)
(* left of it.                                                             *)
(***************************************************************************)
FindSucceeds == status_severity_' # "kWarning"

MovedInDirection(backward) ==
  /\ cursor_line_' = cursor_line_
  /\ IF backward THEN cursor_column_' < cursor_column_ ELSE cursor_column_' > cursor_column_

TargetNextToCursor(command, target) ==
  /\ command = "t" =>
       /\ cursor_column_' + 2 <= Len(lines_'[cursor_line_' + 1])
       /\ lines_'[cursor_line_' + 1][cursor_column_' + 2] = target
  /\ command = "T" =>
       /\ cursor_column_' >= 1
       /\ lines_'[cursor_line_' + 1][cursor_column_'] = target

C33_SuccessfulFindMovesInItsDirection ==
  [][/\ \A command \in FindCommands : \A target \in FindTargets :
          (/\ TypedInNormalMode(target)
           /\ pending_normal_command_ = <<command>>
           /\ FindSucceeds)
          => /\ MovedInDirection(command \in {"F", "T"})
             /\ TargetNextToCursor(command, target)
     /\ \A repeat \in {"n", "N"} :
          (/\ TypedInNormalMode(repeat)
           /\ pending_normal_command_ = << >>
           /\ has_last_find_
           /\ FindSucceeds)
          => MovedInDirection(IF repeat = "N" THEN ~last_find_backward_
                              ELSE last_find_backward_)]_vars


(***************************************************************************)
(* C34: in Normal mode with nothing pending and a find remembered, the key *)
(* ; moves the cursor as the remembered find command with the remembered   *)
(* target does from there, to the next occurrence in the remembered        *)
(* direction (next to it for a till), and the key , as the command of the  *)
(* opposite direction does; when there is no such occurrence, or no find   *)
(* is remembered, the cursor stays and the status is a warning.            *)
(***************************************************************************)
RepeatedCommand(reverse_direction) ==
  LET backward == IF reverse_direction THEN ~last_find_backward_ ELSE last_find_backward_
  IN CASE ~backward /\ ~last_find_till_ -> "f"
       [] ~backward /\ last_find_till_ -> "t"
       [] backward /\ ~last_find_till_ -> "F"
       [] OTHER -> "T"

FirstOccurrence(command, target) ==
  {column \in OccurrencesInDirection(command, target) :
     \A other \in OccurrencesInDirection(command, target) :
       IF command \in {"F", "T"} THEN other <= column ELSE other >= column}

RepeatsLastFind(reverse_direction) ==
  /\ cursor_line_' = cursor_line_
  /\ has_last_find_ =>
       /\ \A column \in FirstOccurrence(RepeatedCommand(reverse_direction), last_find_target_) :
            cursor_column_' = LandingColumn(RepeatedCommand(reverse_direction), column)
       /\ FirstOccurrence(RepeatedCommand(reverse_direction), last_find_target_) = {} =>
            /\ cursor_column_' = cursor_column_
            /\ status_severity_' = "kWarning"
  /\ ~has_last_find_ =>
       /\ cursor_column_' = cursor_column_
       /\ status_severity_' = "kWarning"

C34_SemicolonAndCommaRepeatLastFind ==
  [][/\ (TypedInNormalMode(";") /\ pending_normal_command_ = << >>) => RepeatsLastFind(FALSE)
     /\ (TypedInNormalMode(",") /\ pending_normal_command_ = << >>) => RepeatsLastFind(TRUE)]_vars


(***************************************************************************)
(* C35: in Normal mode the second of two keys g in a row leaves the cursor *)
(* on the first line of the buffer; G with nothing pending moves it to the *)
(* line of the prefix count N (line N - 1 counted from 0, the last line    *)
(* when N is larger than the number of lines) and to the last line when no *)
(* prefix count is set.                                                    *)
(***************************************************************************)
C35_GgAndGMoveToFirstAndCountedLine ==
  [][/\ (TypedInNormalMode("g") /\ handled.event = CharacterKey("g")) => cursor_line_' = 0
     /\ (TypedInNormalMode("G") /\ pending_normal_command_ = << >>) =>
          cursor_line_' = (IF PrefixCountSet THEN Min(prefix_count_, Len(lines_))
                           ELSE Len(lines_)) - 1]_vars


ResolvedModes == {"kNormal", "kInsert", "kCommand", "kVisual", "kAny"}
ResolvedGestures == {"x", "y"}

C37_ResolvedKeybindingHasTheModeAndGesture ==
  \A mode \in ResolvedModes : \A gesture \in ResolvedGestures :
    ResolveKeybinding(mode, gesture) # NoRecord =>
      /\ ResolveKeybinding(mode, gesture).descriptor.mode = mode
      /\ ResolveKeybinding(mode, gesture).descriptor.gesture = gesture



(***************************************************************************)
(* C38: once Unsubscribe(token) has returned true on one thread, no        *)
(* thread invokes the callback of that token any more, also not a thread   *)
(* that is delivering an event at that time.                               *)
(***************************************************************************)
CallbackInvoked == Len(delivered') = Len(delivered) + 1
InvokedToken == delivered'[Len(delivered')].token

C38_UnsubscribedCallbackNeverInvoked ==
  [][CallbackInvoked => InvokedToken \notin unsubscribed]_vars


(***************************************************************************)
(* C39: with two threads that register and unregister at the same time,    *)
(* every subscriber gets the events in the order in which their changes    *)
(* were applied to the registry under the mutex: of two invocations of     *)
(* one callback, the earlier one carries the earlier change.               *)
(***************************************************************************)
C39_EventsDeliveredInTheOrderOfTheChanges ==
  \A i \in DOMAIN delivered : \A j \in DOMAIN delivered :
    (i < j /\ delivered[i].token = delivered[j].token)
      => delivered[i].change < delivered[j].change



(***************************************************************************)
(* C40: a key that only moves the cursor in Normal mode (h, j, k, l, an    *)
(* arrow key, 0, G) leaves the lines of the buffer and its dirty flag as   *)
(* they were, so that `:q` still quits a buffer whose text was never       *)
(* modified.                                                               *)
(***************************************************************************)
CursorKeys == Arrows \cup {CharacterKey(value) : value \in {"h", "j", "k", "l", "0", "G"}}

CursorKeyTyped ==
  /\ KeyHandled
  /\ mode_ = "kNormal"
  /\ pending_normal_command_ = << >>
  /\ handled'.event \in CursorKeys

C40_CursorKeysLeaveTextAndDirtyFlag ==
  [][CursorKeyTyped => (lines_' = lines_ /\ dirty_' = dirty_)]_vars

====
